---- MODULE Spec2Model ----
(***************************************************************************)
(* A state-machine model of go-headless-term: the cell grid (Buffer), the  *)
(* Terminal handlers that drive it, the image store (ImageManager) and the *)
(* locking discipline of the Terminal's entry points.                      *)
(*                                                                         *)
(* Coordinates are 0-based as in the Go source; TLA+ sequences are 1-based,*)
(* so cell (row, col) of a buffer b is b.cells[row + 1][col + 1].          *)
(***************************************************************************)
EXTENDS Integers, Sequences, FiniteSets, TLC

VARIABLES
    term,     \* the Terminal struct (dimensions, buffers, cursor, modes, ...)
    images,   \* the ImageManager struct
    now,      \* the wall clock read by time.Now() in the image store
    thr,      \* per calling thread: where it stands inside its entry point
    env,      \* middleware and provider handles of the Terminal, and their sinks
    last,     \* history: the operation that produced the current state
    steps     \* history: number of operations performed so far

vars == <<term, images, now, thr, env, last, steps>>

----------------------------------------------------------------------------
(* Bounds of the model *)

MaxRows  == 3     \* largest row count a buffer may reach
MaxCols  == 3     \* largest column count a buffer may reach
MaxArg   == 2     \* largest numeric argument passed to a handler
MaxSteps == 4     \* longest sequence of terminal operations explored
MaxImgOps   == 4  \* longest sequence of image-store operations explored
MaxByte     == 1  \* largest byte value in image data
MaxBlobLen  == 2  \* longest image data, in bytes
MaxImageID  == 2  \* largest image id a caller passes in
MaxBudget   == 3  \* largest memory budget passed to SetMaxMemory
MaxEvents   == 2  \* most events decoded from the data of one Write
MaxCalls    == 1  \* most entry-point calls one thread makes

Max(a, b) == IF a >= b THEN a ELSE b
Min(a, b) == IF a <= b THEN a ELSE b

----------------------------------------------------------------------------
(* Cell *)

\* The five underline bits of CellFlags.
UnderlineFlags ==
    {"Underline", "DoubleUnderline", "CurlyUnderline", "DottedUnderline",
     "DashedUnderline"}

\* NewCell(): a space with default colours and no flags.  Of the flag
\* bitmask the model keeps WideChar, WideCharSpacer, Dirty and, in ul, the
\* set of underline bits that are on.
NewCell == [ch |-> " ", wide |-> FALSE, spacer |-> FALSE, dirty |-> FALSE, ul |-> {}]

\* Cell.Reset(): back to the default state; Flags = 0, so Dirty goes too.
CellReset(c) == NewCell

\* Cell.MarkDirty(): SetFlag(CellFlagDirty).
CellMarkDirty(c) == [c EXCEPT !.dirty = TRUE]

\* Cell.ClearDirty(): ClearFlag(CellFlagDirty).
CellClearDirty(c) == [c EXCEPT !.dirty = FALSE]

----------------------------------------------------------------------------
(* Buffer.  A method that indexes a row slice past its length raises Go's  *)
(* index-out-of-range panic; the result then carries panic = TRUE.         *)

BlankRow(n) == [j \in 1..n |-> NewCell]

\* A fresh row whose cells were each marked dirty after NewCell().
DirtyRow(n) == [j \in 1..n |-> CellMarkDirty(NewCell)]

\* NoopScrollback{}: discards every line, MaxLines() = 0.
NoopScrollback == [kind |-> "noop", lines |-> <<>>, maxLines |-> 0]

\* NewMemoryScrollback(maxLines).
NewMemoryScrollback(maxLines) ==
    [kind |-> "memory", lines |-> <<>>, maxLines |-> maxLines]

\* The last n elements of a sequence (s[len(s)-n:]).
LastN(s, n) == IF Len(s) <= n THEN s ELSE SubSeq(s, Len(s) - n + 1, Len(s))

\* A Push that never trims.
PushNoTrim(sb, line) ==
    IF sb.kind = "noop" THEN sb ELSE [sb EXCEPT !.lines = Append(@, line)]

\* ScrollbackProvider.Push(line): append a copy, then trim the oldest lines
\* when maxLines > 0 and the length exceeds it.
Push(sb, line) ==
    IF sb.kind = "noop" THEN sb
    ELSE LET all == Append(sb.lines, line)
         IN [sb EXCEPT !.lines = IF sb.maxLines > 0 /\ Len(all) > sb.maxLines
                                  THEN LastN(all, sb.maxLines) ELSE all]

RECURSIVE PushRows(_, _, _)
\* Push of rows[1], ..., rows[n] in that order.
PushRows(sb, rows, n) ==
    IF n <= 0 THEN sb ELSE Push(PushRows(sb, rows, n - 1), rows[n])

\* ScrollbackProvider.SetMaxLines(max).
SetMaxLines(sb, max) ==
    IF sb.kind = "noop" THEN sb
    ELSE [sb EXCEPT !.maxLines = max,
                    !.lines = IF max > 0 /\ Len(@) > max THEN LastN(@, max) ELSE @]

\* ScrollbackProvider.Clear().
ClearLines(sb) == [sb EXCEPT !.lines = <<>>]

\* Default tab stops every 8 columns.
DefaultTabStop(cols) == [j \in 1..cols |-> (j - 1) % 8 = 0]

NewBufferWithStorage(rows, cols, storage) ==
    [rows       |-> rows,
     cols       |-> cols,
     cells      |-> [i \in 1..rows |-> BlankRow(cols)],
     tabStop    |-> DefaultTabStop(cols),
     scrollback |-> storage,
     hasDirty   |-> FALSE,
     panic      |-> FALSE]

NewBuffer(rows, cols) == NewBufferWithStorage(rows, cols, NoopScrollback)

RowLen(b, row) == Len(b.cells[row + 1])

\* The bounds test shared by Cell, SetCell and MarkDirty.
InBounds(b, row, col) ==
    ~(row < 0 \/ row >= b.rows \/ col < 0 \/ col >= b.cols)

\* Buffer.Cell(row, col): nil outside the grid, else &b.cells[row][col],
\* which panics when the row slice is shorter than b.cols.
BufferCell(b, row, col) ==
    IF ~InBounds(b, row, col)
    THEN [kind |-> "nil", cell |-> NewCell]
    ELSE IF col >= RowLen(b, row)
         THEN [kind |-> "panic", cell |-> NewCell]
         ELSE [kind |-> "cell", cell |-> b.cells[row + 1][col + 1]]

\* Writing through the pointer Cell returned.
PutCell(b, row, col, c) == [b EXCEPT !.cells[row + 1][col + 1] = c]

\* Buffer.MarkDirty(row, col).
MarkDirty(b, row, col) ==
    IF ~InBounds(b, row, col) THEN b
    ELSE IF col >= RowLen(b, row) THEN [b EXCEPT !.panic = TRUE]
    ELSE [b EXCEPT !.cells[row + 1][col + 1] = CellMarkDirty(@), !.hasDirty = TRUE]

\* Buffer.HasDirty(): the summary bit.
HasDirty(b) == b.hasDirty

\* Buffer.DirtyCells(): the positions whose cell has the Dirty flag.
DirtyCells(b) ==
    {p \in (0..(Len(b.cells) - 1)) \X (0..(MaxCols + 1)) :
        p[2] < Len(b.cells[p[1] + 1]) /\ b.cells[p[1] + 1][p[2] + 1].dirty}

\* Buffer.ClearAllDirty(): the sweep.
ClearAllDirty(b) ==
    [b EXCEPT !.cells = [i \in 1..Len(@) |-> [j \in 1..Len(@[i]) |->
                            CellClearDirty(@[i][j])]],
              !.hasDirty = FALSE]

ClearRow(b, row) ==
    IF row < 0 \/ row >= b.rows THEN b
    ELSE [b EXCEPT !.cells[row + 1] =
                      [j \in 1..Len(@) |-> CellMarkDirty(CellReset(@[j]))],
                   !.hasDirty = TRUE]

ClearRowRange(b, row, startCol, endCol) ==
    IF row < 0 \/ row >= b.rows THEN b
    ELSE LET s   == Max(startCol, 0)
             e   == Min(endCol, b.cols)
             len == RowLen(b, row)
         IN IF s < e /\ e > len
            THEN [b EXCEPT !.panic = TRUE]
            ELSE [b EXCEPT !.cells[row + 1] =
                    [j \in 1..len |-> IF j - 1 >= s /\ j - 1 < e
                                      THEN CellMarkDirty(CellReset(@[j])) ELSE @[j]],
                           !.hasDirty = TRUE]

RECURSIVE ClearRows(_, _, _)
\* ClearRow on every row in [from, to).
ClearRows(b, from, to) ==
    IF from >= to THEN b ELSE ClearRows(ClearRow(b, from), from + 1, to)

ClearAll(b) == ClearRows(b, 0, b.rows)

ScrollUp(b, top0, bottom0, n0) ==
    IF n0 <= 0 \/ top0 >= bottom0 THEN b
    ELSE LET top    == Max(top0, 0)
             bottom == Min(bottom0, b.rows)
             n      == Min(n0, bottom - top)
             push   == b.scrollback.maxLines > 0 /\ top = 0
         IN [b EXCEPT
               !.scrollback = IF push THEN PushRows(@, b.cells, n) ELSE @,
               !.cells =
                [i \in 1..b.rows |->
                    LET row == i - 1
                    IN IF row >= top /\ row < bottom - n
                       THEN [j \in 1..Len(b.cells[i + n]) |->
                                CellMarkDirty(b.cells[i + n][j])]
                       ELSE IF row >= bottom - n /\ row < bottom
                            THEN DirtyRow(b.cols)
                            ELSE b.cells[i]],
               !.hasDirty = TRUE]

ScrollDown(b, top0, bottom0, n0) ==
    IF n0 <= 0 \/ top0 >= bottom0 THEN b
    ELSE LET top    == Max(top0, 0)
             bottom == Min(bottom0, b.rows)
             n      == Min(n0, bottom - top)
             moved  == {row \in 0..(b.rows - 1) : row >= top + n /\ row < bottom}
         IN IF \E row \in moved : RowLen(b, row - n) < b.cols
            THEN [b EXCEPT !.panic = TRUE]
            ELSE [b EXCEPT !.cells =
                    [i \in 1..b.rows |->
                        LET row == i - 1
                        IN IF row \in moved
                           THEN [j \in 1..Len(b.cells[i - n]) |->
                                    CellMarkDirty(b.cells[i - n][j])]
                           ELSE IF row >= top /\ row < top + n
                                THEN DirtyRow(b.cols)
                                ELSE b.cells[i]],
                           !.hasDirty = TRUE]

InsertLines(b, row, n, bottom) ==
    IF row < 0 \/ row >= bottom \/ n <= 0 THEN b
    ELSE ScrollDown(b, row, bottom, n)

DeleteLines(b, row, n, bottom) ==
    IF row < 0 \/ row >= bottom \/ n <= 0 THEN b
    ELSE ScrollUp(b, row, bottom, n)

InsertBlanks(b, row, col, n) ==
    IF row < 0 \/ row >= b.rows \/ col < 0 \/ col >= b.cols \/ n <= 0 THEN b
    ELSE LET len == RowLen(b, row)
         IN IF len < b.cols
            THEN [b EXCEPT !.panic = TRUE]
            ELSE [b EXCEPT !.cells[row + 1] =
                    [j \in 1..len |->
                        LET c == j - 1
                        IN IF c >= col + n THEN CellMarkDirty(@[j - n])
                           ELSE IF c >= col THEN CellMarkDirty(CellReset(@[j]))
                           ELSE @[j]],
                         !.hasDirty = TRUE]

DeleteChars(b, row, col, n) ==
    IF row < 0 \/ row >= b.rows \/ col < 0 \/ col >= b.cols \/ n <= 0 THEN b
    ELSE LET len == RowLen(b, row)
         IN IF len < b.cols
            THEN [b EXCEPT !.panic = TRUE]
            ELSE [b EXCEPT !.cells[row + 1] =
                    [j \in 1..len |->
                        LET c == j - 1
                        IN IF c >= b.cols - n THEN CellMarkDirty(CellReset(@[j]))
                           ELSE IF c >= col THEN CellMarkDirty(@[j + n])
                           ELSE @[j]],
                         !.hasDirty = TRUE]

\* The tab stops after the column count changes from len(b.tabStop) to cols:
\* copy the old ones, then one new stop every 8 columns from the old length.
ExtendTabStop(old, cols) ==
    [j \in 1..cols |->
        IF j <= Len(old) THEN old[j]
        ELSE (j - 1 - Len(old)) % 8 = 0]

BufferResize(b, rows, cols) ==
    IF rows <= 0 \/ cols <= 0 THEN b
    ELSE IF \E i \in 1..Min(rows, b.rows) : Len(b.cells[i]) < Min(cols, b.cols)
         THEN [b EXCEPT !.panic = TRUE]
         ELSE [b EXCEPT
                 !.cells = [i \in 1..rows |-> [j \in 1..cols |->
                              CellMarkDirty(IF i <= b.rows /\ j <= b.cols
                                            THEN b.cells[i][j] ELSE NewCell)]],
                 !.rows = rows,
                 !.cols = cols,
                 !.hasDirty = TRUE,
                 !.tabStop = ExtendTabStop(b.tabStop, cols)]

SetTabStop(b, col) ==
    IF col >= 0 /\ col < b.cols THEN [b EXCEPT !.tabStop[col + 1] = TRUE] ELSE b

ClearTabStop(b, col) ==
    IF col >= 0 /\ col < b.cols THEN [b EXCEPT !.tabStop[col + 1] = FALSE] ELSE b

ClearAllTabStops(b) == [b EXCEPT !.tabStop = [j \in 1..Len(@) |-> FALSE]]

\* NextTabStop(col): the first stop in (col, cols), else cols - 1.
NextTabStop(b, col) ==
    LET S == {c \in (col + 1)..(b.cols - 1) : b.tabStop[c + 1]}
    IN IF S = {} THEN b.cols - 1 ELSE CHOOSE c \in S : \A d \in S : c <= d

\* PrevTabStop(col) scans c = col-1 .. 0 and reads b.tabStop[c] unguarded: the
\* first read is out of range when col - 1 >= len(b.tabStop).
PrevTabStopPanics(b, col) == col - 1 >= 0 /\ col - 1 >= Len(b.tabStop)

PrevTabStop(b, col) ==
    LET S == {c \in 0..(col - 1) : b.tabStop[c + 1]}
    IN IF S = {} THEN 0 ELSE CHOOSE c \in S : \A d \in S : c >= d

FillWithE(b) ==
    [b EXCEPT !.cells = [i \in 1..Len(@) |-> [j \in 1..Len(@[i]) |->
                            CellMarkDirty([CellReset(@[i][j]) EXCEPT !.ch = "E"])]],
              !.hasDirty = TRUE]

GrowRows(b, n) ==
    IF n <= 0 THEN b
    ELSE [b EXCEPT !.cells = @ \o [i \in 1..n |-> DirtyRow(b.cols)],
                   !.rows = @ + n,
                   !.hasDirty = TRUE]

GrowCols(b, row, minCols) ==
    IF row < 0 \/ row >= b.rows THEN b
    ELSE IF minCols <= RowLen(b, row) THEN b
    ELSE [b EXCEPT
            !.cells[row + 1] = [j \in 1..minCols |->
                                  IF j <= Len(@) THEN @[j] ELSE CellMarkDirty(NewCell)],
            !.hasDirty = TRUE,
            !.cols = IF minCols > b.cols THEN minCols ELSE @,
            !.tabStop = IF minCols > b.cols THEN ExtendTabStop(@, minCols) ELSE @]

----------------------------------------------------------------------------
(* Terminal.  A handler that hits a buffer panic leaves term.fault = TRUE: *)
(* the Go program has crashed and nothing runs after it.                   *)

\* runeWidth: 1 for a normal rune, 2 for a wide one (CJK), 0 for a combining
\* mark.  The runes of the model are "a" (narrow), "W" (wide), "z" (zero-width).
runeWidth(r) == IF r = "W" THEN 2 ELSE IF r = "z" THEN 0 ELSE 1

clamp(val, min, max) ==
    IF val < min THEN min ELSE IF val > max THEN max ELSE val

\* NewCellTemplate(): default colours, no flags.
NewCellTemplate == [ul |-> {}]

\* New(WithSize(rows, cols), WithScrollback(storage)), with or without
\* WithAutoResize().  The alternate buffer always gets NoopScrollback.
NewTerminalWithScrollback(rows, cols, autoResize, storage) ==
    [rows            |-> rows,
     cols            |-> cols,
     primaryBuffer   |-> NewBufferWithStorage(rows, cols, storage),
     alternateBuffer |-> NewBuffer(rows, cols),
     activeBuffer    |-> "primary",
     cursor          |-> [Row |-> 0, Col |-> 0],
     template        |-> NewCellTemplate,
     savedCursor     |-> [set |-> FALSE, Row |-> 0, Col |-> 0,
                          Attrs |-> NewCellTemplate, OriginMode |-> FALSE],
     scrollTop       |-> 0,
     scrollBottom    |-> rows,
     modes           |-> {"LineWrap", "ShowCursor"},
     autoResize      |-> autoResize,
     sixelEnabled    |-> TRUE,
     kittyEnabled    |-> TRUE,
     promptMarks     |-> <<>>,
     fault           |-> FALSE]

\* New(WithSize(rows, cols)): the scrollback defaults to NoopScrollback.
NewTerminal(rows, cols, autoResize) ==
    NewTerminalWithScrollback(rows, cols, autoResize, NoopScrollback)

\* t.activeBuffer points at one of the two buffers.
ActiveBuf(t) ==
    IF t.activeBuffer = "primary" THEN t.primaryBuffer ELSE t.alternateBuffer

Faulted(t) == [t EXCEPT !.fault = TRUE]

\* The terminal after a method of the active buffer returned b.
WithActive(t, b) ==
    IF b.panic THEN Faulted(t)
    ELSE IF t.activeBuffer = "primary" THEN [t EXCEPT !.primaryBuffer = b]
    ELSE [t EXCEPT !.alternateBuffer = b]

effectiveRow(t, row) ==
    IF "Origin" \in t.modes THEN row + t.scrollTop ELSE row

scrollIfNeeded(t) ==
    IF t.cursor.Row >= t.scrollBottom
    THEN IF t.autoResize
         THEN LET b == GrowRows(ActiveBuf(t), t.cursor.Row - t.scrollBottom + 1)
              IN [WithActive(t, b) EXCEPT !.rows = b.rows, !.scrollBottom = b.rows]
         ELSE LET b == ScrollUp(ActiveBuf(t), t.scrollTop, t.scrollBottom,
                                t.cursor.Row - t.scrollBottom + 1)
              IN [WithActive(t, b) EXCEPT !.cursor.Row = t.scrollBottom - 1]
    ELSE IF t.cursor.Row < t.scrollTop
    THEN LET b == ScrollDown(ActiveBuf(t), t.scrollTop, t.scrollBottom,
                             t.scrollTop - t.cursor.Row)
         IN [WithActive(t, b) EXCEPT !.cursor.Row = t.scrollTop]
    ELSE t

backspaceInternal(t) ==
    IF t.cursor.Col > 0 THEN [t EXCEPT !.cursor.Col = @ - 1] ELSE t

carriageReturnInternal(t) == [t EXCEPT !.cursor.Col = 0]

clearLineInternal(t, mode) ==
    CASE mode = "Right" ->
           WithActive(t, ClearRowRange(ActiveBuf(t), t.cursor.Row, t.cursor.Col, t.cols))
      [] mode = "Left" ->
           WithActive(t, ClearRowRange(ActiveBuf(t), t.cursor.Row, 0, t.cursor.Col + 1))
      [] mode = "All" ->
           WithActive(t, ClearRow(ActiveBuf(t), t.cursor.Row))
      [] OTHER -> t

clearScreenInternal(t, mode) ==
    CASE mode = "Below" ->
           LET b1 == ClearRowRange(ActiveBuf(t), t.cursor.Row, t.cursor.Col, t.cols)
           IN IF b1.panic THEN Faulted(t)
              ELSE WithActive(t, ClearRows(b1, t.cursor.Row + 1, t.rows))
      [] mode = "Above" ->
           LET b1 == ClearRows(ActiveBuf(t), 0, t.cursor.Row)
           IN WithActive(t, ClearRowRange(b1, t.cursor.Row, 0, t.cursor.Col + 1))
      [] mode = "All" -> WithActive(t, ClearAll(ActiveBuf(t)))
      [] mode = "Saved" -> WithActive(t, ClearAll(ActiveBuf(t)))
      [] OTHER -> t

clearTabsInternal(t, mode) ==
    CASE mode = "Current" -> WithActive(t, ClearTabStop(ActiveBuf(t), t.cursor.Col))
      [] mode = "All" -> WithActive(t, ClearAllTabStops(ActiveBuf(t)))
      [] OTHER -> t

decalnInternal(t) == WithActive(t, FillWithE(ActiveBuf(t)))

deleteCharsInternal(t, n) ==
    WithActive(t, DeleteChars(ActiveBuf(t), t.cursor.Row, t.cursor.Col, n))

deleteLinesInternal(t, n) ==
    IF t.cursor.Row >= t.scrollTop /\ t.cursor.Row < t.scrollBottom
    THEN WithActive(t, DeleteLines(ActiveBuf(t), t.cursor.Row, n, t.scrollBottom))
    ELSE t

\* The columns EraseChars visits: i < n and cursor.Col + i < t.cols.
EraseCols(t, n) ==
    {c \in t.cursor.Col..(t.cursor.Col + n - 1) : c < t.cols}

eraseCharsInternal(t, n) ==
    LET b == ActiveBuf(t)
        row == t.cursor.Row
    IN IF \E c \in EraseCols(t, n) : BufferCell(b, row, c).kind = "panic"
       THEN Faulted(t)
       ELSE IF row < 0 \/ row >= b.rows THEN t
       ELSE WithActive(t, [b EXCEPT !.cells[row + 1] =
                [j \in 1..Len(@) |->
                    IF (j - 1) \in EraseCols(t, n) /\ InBounds(b, row, j - 1)
                    THEN CellReset(@[j]) ELSE @[j]]])

gotoInternal(t, row, col) ==
    [t EXCEPT !.cursor.Row = clamp(effectiveRow(t, row), 0, t.rows - 1),
              !.cursor.Col = clamp(col, 0, t.cols - 1)]

gotoColInternal(t, col) == [t EXCEPT !.cursor.Col = clamp(col, 0, t.cols - 1)]

gotoLineInternal(t, row) ==
    [t EXCEPT !.cursor.Row = clamp(effectiveRow(t, row), 0, t.rows - 1)]

horizontalTabSetInternal(t) == WithActive(t, SetTabStop(ActiveBuf(t), t.cursor.Col))

\* inputInternal, first part: the cursor does not have room for the rune.
\* ret = TRUE models the early return (a wide rune that cannot fit, no wrap).
inputOverflow(t, width) ==
    IF t.cursor.Col + width > t.cols
    THEN IF t.autoResize
         THEN LET b  == GrowCols(ActiveBuf(t), t.cursor.Row, t.cursor.Col + width)
                  t1 == [WithActive(t, b) EXCEPT !.cols = b.cols]
              IN [t   |-> IF t1.cursor.Col >= t1.cols
                          THEN [t1 EXCEPT !.cursor.Col = t1.cols - 1] ELSE t1,
                  ret |-> FALSE]
         ELSE IF "LineWrap" \in t.modes
         THEN LET t1 == [t EXCEPT !.cursor.Col = 0, !.cursor.Row = @ + 1]
              IN [t   |-> IF t1.cursor.Row >= t1.rows THEN scrollIfNeeded(t1) ELSE t1,
                  ret |-> FALSE]
         ELSE IF width = 2
         THEN [t |-> t, ret |-> TRUE]
         ELSE [t |-> [t EXCEPT !.cursor.Col = t.cols - 1], ret |-> FALSE]
    ELSE [t |-> t, ret |-> FALSE]

\* inputInternal: insert mode shifts the row right by the rune's width.
inputInsert(t, width) ==
    IF "Insert" \in t.modes
    THEN WithActive(t, InsertBlanks(ActiveBuf(t), t.cursor.Row, t.cursor.Col, width))
    ELSE t

\* inputInternal: write the rune's cell at the cursor and advance one column.
\* The cell takes the template's flags, which never carry the wide bits.
inputWriteCell(t, r, width) ==
    LET got == BufferCell(ActiveBuf(t), t.cursor.Row, t.cursor.Col)
        t1  == IF t.cursor.Col < t.cols
               THEN IF got.kind = "panic" THEN Faulted(t)
                    ELSE IF got.kind = "cell"
                    THEN WithActive(t, MarkDirty(
                            PutCell(ActiveBuf(t), t.cursor.Row, t.cursor.Col,
                                [ch |-> r, wide |-> (width = 2), spacer |-> FALSE,
                                 dirty |-> FALSE, ul |-> t.template.ul]),
                            t.cursor.Row, t.cursor.Col))
                    ELSE t
               ELSE t
    IN [t1 EXCEPT !.cursor.Col = @ + 1]

\* inputInternal: the spacer cell that follows a wide rune.
inputWriteSpacer(t, width) ==
    IF width = 2 /\ t.cursor.Col < t.cols
    THEN LET got == BufferCell(ActiveBuf(t), t.cursor.Row, t.cursor.Col)
             t1  == IF got.kind = "panic" THEN Faulted(t)
                    ELSE IF got.kind = "cell"
                    THEN WithActive(t, MarkDirty(
                            PutCell(ActiveBuf(t), t.cursor.Row, t.cursor.Col,
                                [CellReset(got.cell) EXCEPT !.spacer = TRUE]),
                            t.cursor.Row, t.cursor.Col))
                    ELSE t
         IN [t1 EXCEPT !.cursor.Col = @ + 1]
    ELSE t

\* inputInternal: the clamps at the end of the handler.
inputClamp(t) ==
    LET t1 == IF t.cursor.Col >= t.cols /\ ~t.autoResize /\ "LineWrap" \notin t.modes
              THEN [t EXCEPT !.cursor.Col = t.cols - 1] ELSE t
        t2 == IF t1.cursor.Row >= t1.rows /\ ~t1.autoResize
                 /\ t1.cursor.Row >= ActiveBuf(t1).rows
              THEN [t1 EXCEPT !.cursor.Row = ActiveBuf(t1).rows - 1] ELSE t1
        t3 == IF t2.cursor.Col < 0 THEN [t2 EXCEPT !.cursor.Col = 0] ELSE t2
    IN IF t3.cursor.Row < 0 THEN [t3 EXCEPT !.cursor.Row = 0] ELSE t3

inputInternal(t, r) ==
    LET width == runeWidth(r)
    IN IF width = 0 THEN t
       ELSE LET o  == inputOverflow(t, width)
                t1 == o.t
            IN IF o.ret \/ t1.fault THEN t1
               ELSE LET t2 == inputInsert(t1, width)
                    IN IF t2.fault THEN t2
                       ELSE IF t2.cursor.Row < 0 \/ t2.cursor.Row >= t2.rows
                               \/ t2.cursor.Col < 0
                       THEN t2
                       ELSE LET t3 == inputWriteCell(t2, r, width)
                            IN IF t3.fault THEN t3
                               ELSE LET t4 == inputWriteSpacer(t3, width)
                                    IN IF t4.fault THEN t4 ELSE inputClamp(t4)

insertBlankInternal(t, n) ==
    WithActive(t, InsertBlanks(ActiveBuf(t), t.cursor.Row, t.cursor.Col, n))

insertBlankLinesInternal(t, n) ==
    IF t.cursor.Row >= t.scrollTop /\ t.cursor.Row < t.scrollBottom
    THEN WithActive(t, InsertLines(ActiveBuf(t), t.cursor.Row, n, t.scrollBottom))
    ELSE t

lineFeedInternal(t) ==
    LET t1 == IF "LineFeedNewLine" \in t.modes THEN [t EXCEPT !.cursor.Col = 0] ELSE t
    IN scrollIfNeeded([t1 EXCEPT !.cursor.Row = @ + 1])

moveBackwardInternal(t, n) ==
    [t EXCEPT !.cursor.Col = clamp(t.cursor.Col - n, 0, t.cols - 1)]

moveForwardInternal(t, n) ==
    [t EXCEPT !.cursor.Col = clamp(t.cursor.Col + n, 0, t.cols - 1)]

moveDownInternal(t, n) ==
    [t EXCEPT !.cursor.Row = clamp(t.cursor.Row + n, 0, t.rows - 1)]

moveUpInternal(t, n) ==
    [t EXCEPT !.cursor.Row = clamp(t.cursor.Row - n, 0, t.rows - 1)]

moveDownCrInternal(t, n) ==
    [t EXCEPT !.cursor.Row = clamp(t.cursor.Row + n, 0, t.rows - 1), !.cursor.Col = 0]

moveUpCrInternal(t, n) ==
    [t EXCEPT !.cursor.Row = clamp(t.cursor.Row - n, 0, t.rows - 1), !.cursor.Col = 0]

RECURSIVE NextTabStops(_, _, _)
\* n successive NextTabStop calls starting from col.
NextTabStops(b, col, n) ==
    IF n <= 0 THEN col ELSE NextTabStops(b, NextTabStop(b, col), n - 1)

RECURSIVE PrevTabStops(_, _, _)
\* n successive PrevTabStop calls starting from col.
PrevTabStops(b, col, n) ==
    IF n <= 0 THEN col ELSE PrevTabStops(b, PrevTabStop(b, col), n - 1)

moveForwardTabsInternal(t, n) ==
    [t EXCEPT !.cursor.Col = NextTabStops(ActiveBuf(t), t.cursor.Col, n)]

tabInternal(t, n) ==
    [t EXCEPT !.cursor.Col = NextTabStops(ActiveBuf(t), t.cursor.Col, n)]

moveBackwardTabsInternal(t, n) ==
    IF n >= 1 /\ PrevTabStopPanics(ActiveBuf(t), t.cursor.Col) THEN Faulted(t)
    ELSE [t EXCEPT !.cursor.Col = PrevTabStops(ActiveBuf(t), t.cursor.Col, n)]

resetStateInternal(t) ==
    [WithActive(t, ClearAll(ActiveBuf(t))) EXCEPT
        !.cursor = [Row |-> 0, Col |-> 0],
        !.template = NewCellTemplate,
        !.scrollTop = 0,
        !.scrollBottom = t.rows,
        !.modes = {"LineWrap", "ShowCursor"}]

restoreCursorPositionLocked(t) ==
    IF t.savedCursor.set
    THEN [t EXCEPT !.cursor = [Row |-> t.savedCursor.Row, Col |-> t.savedCursor.Col],
                   !.template = t.savedCursor.Attrs,
                   !.modes = IF t.savedCursor.OriginMode
                             THEN @ \cup {"Origin"} ELSE @ \ {"Origin"}]
    ELSE t

restoreCursorPositionInternal(t) == restoreCursorPositionLocked(t)

saveCursorPositionLocked(t) ==
    [t EXCEPT !.savedCursor = [set |-> TRUE, Row |-> t.cursor.Row, Col |-> t.cursor.Col,
                               Attrs |-> t.template,
                               OriginMode |-> ("Origin" \in t.modes)]]

saveCursorPositionInternal(t) == saveCursorPositionLocked(t)

reverseIndexInternal(t) ==
    IF t.cursor.Row = t.scrollTop
    THEN WithActive(t, ScrollDown(ActiveBuf(t), t.scrollTop, t.scrollBottom, 1))
    ELSE IF t.cursor.Row > 0 THEN [t EXCEPT !.cursor.Row = @ - 1]
    ELSE t

scrollDownInternal(t, n) ==
    WithActive(t, ScrollDown(ActiveBuf(t), t.scrollTop, t.scrollBottom, n))

scrollUpInternal(t, n) ==
    WithActive(t, ScrollUp(ActiveBuf(t), t.scrollTop, t.scrollBottom, n))

\* The modes setModeLocked maps to a bit; every other mode returns at once.
KnownModes ==
    {"Insert", "Origin", "LineWrap", "LineFeedNewLine", "ShowCursor",
     "SwapScreenAndSetRestoreCursor", "BracketedPaste"}

setModeLocked(t, mode, set) ==
    IF mode \notin KnownModes THEN t
    ELSE LET t1 ==
               CASE mode = "Origin" /\ set ->
                      [t EXCEPT !.cursor = [Row |-> t.scrollTop, Col |-> 0]]
                 [] mode = "SwapScreenAndSetRestoreCursor" /\ set ->
                      LET s == [saveCursorPositionLocked(t) EXCEPT
                                    !.activeBuffer = "alternate"]
                      IN WithActive(s, ClearAll(ActiveBuf(s)))
                 [] mode = "SwapScreenAndSetRestoreCursor" /\ ~set ->
                      restoreCursorPositionLocked([t EXCEPT !.activeBuffer = "primary"])
                 [] OTHER -> t
         IN [t1 EXCEPT !.modes = IF set THEN @ \cup {mode} ELSE @ \ {mode}]

setModeInternal(t, mode) == setModeLocked(t, mode, TRUE)

unsetModeInternal(t, mode) == setModeLocked(t, mode, FALSE)

setScrollingRegionInternal(t, top0, bottom0) ==
    LET top    == IF top0 - 1 < 0 THEN 0 ELSE top0 - 1
        bottom == IF bottom0 - 1 <= 0 \/ bottom0 - 1 > t.rows THEN t.rows ELSE bottom0 - 1
    IN IF top >= bottom THEN t
       ELSE [t EXCEPT !.scrollTop = top,
                      !.scrollBottom = bottom,
                      !.cursor = [Row |-> IF "Origin" \in t.modes THEN top ELSE 0,
                                  Col |-> 0]]

substituteInternal(t) ==
    LET got == BufferCell(ActiveBuf(t), t.cursor.Row, t.cursor.Col)
    IN IF got.kind = "panic" THEN Faulted(t)
       ELSE IF got.kind = "cell"
       THEN WithActive(t, PutCell(ActiveBuf(t), t.cursor.Row, t.cursor.Col,
                                  [got.cell EXCEPT !.ch = "?"]))
       ELSE t

\* The attributes of the model: the five underline variants, the cancel of
\* all of them, the full reset, and Bold for the flags that are not underline.
CharAttributes == UnderlineFlags \cup {"CancelUnderline", "Reset", "Bold"}

\* An attribute setter whose underline variants only set their own flag.
setFlagOnly(t, attr) ==
    CASE attr = "Reset" -> [t EXCEPT !.template = NewCellTemplate]
      [] attr \in UnderlineFlags -> [t EXCEPT !.template.ul = @ \cup {attr}]
      [] attr = "CancelUnderline" -> [t EXCEPT !.template.ul = @ \ UnderlineFlags]
      [] OTHER -> t

\* setTerminalCharAttributeInternal: an underline variant sets its own flag
\* and clears the other four.
setTerminalCharAttributeInternal(t, attr) ==
    CASE attr = "Reset" -> [t EXCEPT !.template = NewCellTemplate]
      [] attr \in UnderlineFlags ->
           [t EXCEPT !.template.ul = (@ \cup {attr}) \ (UnderlineFlags \ {attr})]
      [] attr = "CancelUnderline" -> [t EXCEPT !.template.ul = @ \ UnderlineFlags]
      [] OTHER -> t

\* Terminal.ClearDirty(): the sweep of the active buffer.
ClearDirty(t) == WithActive(t, ClearAllDirty(ActiveBuf(t)))

\* Terminal.ClearScrollback().
ClearScrollback(t) == [t EXCEPT !.primaryBuffer.scrollback = ClearLines(@)]

\* Terminal.SetMaxScrollback(max).
SetMaxScrollback(t, max) ==
    [t EXCEPT !.primaryBuffer.scrollback = SetMaxLines(@, max)]

\* The cells assignImageToCells visits for a placement of p.Rows x p.Cols
\* cells at (p.Row, p.Col): those inside t.rows x t.cols.
ImageCells(t, p) ==
    {c \in (p.Row..(p.Row + p.Rows - 1)) \X (p.Col..(p.Col + p.Cols - 1)) :
        ~(c[1] < 0 \/ c[1] >= t.rows \/ c[2] < 0 \/ c[2] >= t.cols)}

\* assignImageToCells: each visited cell gets the image reference and
\* cell.MarkDirty(); the buffer's summary bit is not touched.
assignImageToCells(t, p) ==
    LET b == ActiveBuf(t)
        hit == {c \in ImageCells(t, p) : BufferCell(b, c[1], c[2]).kind # "nil"}
    IN IF \E c \in hit : BufferCell(b, c[1], c[2]).kind = "panic" THEN Faulted(t)
       ELSE WithActive(t, [b EXCEPT !.cells =
                [i \in 1..Len(@) |-> [j \in 1..Len(@[i]) |->
                    IF <<i - 1, j - 1>> \in hit
                    THEN CellMarkDirty(@[i][j]) ELSE @[i][j]]]])

\* Terminal.Resize past its guard: scroll tells whether the rows leaving the
\* viewport are scrolled off the top of the primary buffer first.
ResizeBody(t, rows, cols, scroll) ==
    LET lines  == t.rows - rows
        p1     == IF scroll THEN ScrollUp(t.primaryBuffer, 0, t.rows, lines)
                  ELSE t.primaryBuffer
        row1   == IF scroll THEN Max(t.cursor.Row - lines, 0) ELSE t.cursor.Row
        p2     == BufferResize(p1, rows, cols)
        a2     == BufferResize(t.alternateBuffer, rows, cols)
    IN IF p2.panic \/ a2.panic THEN Faulted(t)
       ELSE [t EXCEPT
               !.rows = rows,
               !.cols = cols,
               !.primaryBuffer = p2,
               !.alternateBuffer = a2,
               !.cursor = [Row |-> Max(Min(row1, rows - 1), 0),
                           Col |-> Max(Min(t.cursor.Col, cols - 1), 0)],
               !.scrollTop = 0,
               !.scrollBottom = rows]

\* Resize's test for scrolling before a shrink.
ShrinkScrolls(t, rows) ==
    rows < t.rows /\ t.activeBuffer = "primary" /\ t.cursor.Row >= rows

\* Resize that scrolls the primary buffer whichever buffer is active.
ResizeAnyBuffer(t, rows, cols) ==
    IF rows <= 0 \/ cols <= 0 THEN t
    ELSE ResizeBody(t, rows, cols, rows < t.rows /\ t.cursor.Row >= rows)

\* Resize without the test of its arguments.
ResizeUnguarded(t, rows, cols) == ResizeBody(t, rows, cols, ShrinkScrolls(t, rows))

\* Terminal.Resize(rows, cols).
Resize(t, rows, cols) ==
    IF rows <= 0 \/ cols <= 0 THEN t
    ELSE ResizeBody(t, rows, cols, ShrinkScrolls(t, rows))

----------------------------------------------------------------------------
(* The grid specification: one Terminal driven through its handlers and    *)
(* Resize by a single caller.                                             *)

Args  == -1..MaxArg
Runes == {"a", "W", "z"}
Modes == {"Insert", "Origin", "LineWrap", "LineFeedNewLine",
          "SwapScreenAndSetRestoreCursor", "Unknown"}

\* Growth is cut off at the bounds of the model.
WithinBounds(t) == t.rows <= MaxRows /\ t.cols <= MaxCols

\* NewImageManager().
NewImageManager ==
    [images          |-> <<>>,
     placements      |-> <<>>,
     hashToID        |-> <<>>,
     nextImageID     |-> 0,
     nextPlacementID |-> 0,
     maxMemory       |-> 320 * 1024 * 1024,
     usedMemory      |-> 0,
     accumulator     |-> <<>>,
     accumulatorMore |-> FALSE]

Threads == {1, 2}

\* A thread outside every entry point.
IdleThread ==
    [todo |-> <<>>, queue |-> <<>>, held |-> "none", did |-> FALSE,
     entry |-> "none", data |-> <<>>, provider |-> "nil", provLocked |-> FALSE,
     cur |-> [Row |-> 0, Col |-> 0], calls |-> 0]

\* New(WithResponse(p)): no middleware, NoopBell, the given response sink.
NewEnv(responseProvider) ==
    [middleware |-> "nil", responseProvider |-> responseProvider,
     bellProvider |-> "noop", out |-> 0, rings |-> 0]

\* The history before any operation has run.
NoOp == [op |-> "New", ret |-> 0, pre |-> <<>>]

\* New(WithSize(rows, cols), WithAutoResize()).
Init ==
    /\ term \in {NewTerminal(r, c, a) :
                    r \in 1..(MaxRows - 1), c \in 1..(MaxCols - 1), a \in BOOLEAN}
    /\ images = NewImageManager
    /\ now = 0
    /\ thr = [i \in Threads |-> IdleThread]
    /\ env = NewEnv("nil")
    /\ last = NoOp
    /\ steps = 0

\* One handler call: it runs only while the process is alive.
Step(t2) ==
    /\ ~term.fault
    /\ steps < MaxSteps
    /\ WithinBounds(t2)
    /\ term' = t2
    /\ steps' = steps + 1
    /\ UNCHANGED <<images, now, thr, env, last>>

Backspace == Step(backspaceInternal(term))
CarriageReturn == Step(carriageReturnInternal(term))
ClearLine == \E m \in {"Right", "Left", "All"} : Step(clearLineInternal(term, m))
ClearScreen ==
    \E m \in {"Below", "Above", "All", "Saved"} :
        Step(clearScreenInternal(term, m))
ClearTabs == \E m \in {"Current", "All"} : Step(clearTabsInternal(term, m))
Decaln == Step(decalnInternal(term))
DeleteCharsOp == \E n \in Args : Step(deleteCharsInternal(term, n))
DeleteLinesOp == \E n \in Args : Step(deleteLinesInternal(term, n))
EraseChars == \E n \in Args : Step(eraseCharsInternal(term, n))
Goto == \E r \in Args, c \in Args : Step(gotoInternal(term, r, c))
GotoCol == \E c \in Args : Step(gotoColInternal(term, c))
GotoLine == \E r \in Args : Step(gotoLineInternal(term, r))
HorizontalTabSet == Step(horizontalTabSetInternal(term))
Input == \E r \in Runes : Step(inputInternal(term, r))
InsertBlank == \E n \in Args : Step(insertBlankInternal(term, n))
InsertBlankLines == \E n \in Args : Step(insertBlankLinesInternal(term, n))
LineFeed == Step(lineFeedInternal(term))
MoveBackward == \E n \in Args : Step(moveBackwardInternal(term, n))
MoveBackwardTabs == \E n \in Args : Step(moveBackwardTabsInternal(term, n))
MoveDown == \E n \in Args : Step(moveDownInternal(term, n))
MoveDownCr == \E n \in Args : Step(moveDownCrInternal(term, n))
MoveForward == \E n \in Args : Step(moveForwardInternal(term, n))
MoveForwardTabs == \E n \in Args : Step(moveForwardTabsInternal(term, n))
MoveUp == \E n \in Args : Step(moveUpInternal(term, n))
MoveUpCr == \E n \in Args : Step(moveUpCrInternal(term, n))
ResetState == Step(resetStateInternal(term))
RestoreCursorPosition == Step(restoreCursorPositionInternal(term))
ReverseIndex == Step(reverseIndexInternal(term))
SaveCursorPosition == Step(saveCursorPositionInternal(term))
ScrollDownOp == \E n \in Args : Step(scrollDownInternal(term, n))
ScrollUpOp == \E n \in Args : Step(scrollUpInternal(term, n))
SetMode == \E m \in Modes : Step(setModeInternal(term, m))
SetScrollingRegion ==
    \E top \in Args, bottom \in Args :
        Step(setScrollingRegionInternal(term, top, bottom))
Substitute == Step(substituteInternal(term))
Tab == \E n \in Args : Step(tabInternal(term, n))
UnsetMode == \E m \in Modes : Step(unsetModeInternal(term, m))
ResizeOp ==
    \E r \in 0..MaxRows, c \in 0..MaxCols : Step(Resize(term, r, c))

Next ==
    \/ Backspace \/ CarriageReturn \/ ClearLine \/ ClearScreen \/ ClearTabs
    \/ Decaln \/ DeleteCharsOp \/ DeleteLinesOp \/ EraseChars
    \/ Goto \/ GotoCol \/ GotoLine \/ HorizontalTabSet \/ Input
    \/ InsertBlank \/ InsertBlankLines \/ LineFeed
    \/ MoveBackward \/ MoveBackwardTabs \/ MoveDown \/ MoveDownCr
    \/ MoveForward \/ MoveForwardTabs \/ MoveUp \/ MoveUpCr
    \/ ResetState \/ RestoreCursorPosition \/ ReverseIndex \/ SaveCursorPosition
    \/ ScrollDownOp \/ ScrollUpOp \/ SetMode \/ SetScrollingRegion
    \/ Substitute \/ Tab \/ UnsetMode \/ ResizeOp

Spec == Init /\ [][Next]_vars

----------------------------------------------------------------------------
(* Properties of the grid specification *)

Buffers == {term.primaryBuffer, term.alternateBuffer}

\* C1: after every handler call and every Resize the cursor lies inside the
\* terminal's current dimensions: 0 <= row < rows and 0 <= col <= cols.
C1_CursorContainment ==
    ~term.fault =>
        /\ 0 <= term.cursor.Row /\ term.cursor.Row < term.rows
        /\ 0 <= term.cursor.Col /\ term.cursor.Col <= term.cols

\* C2: no sequence of handler calls, in normal or auto-resize mode and on
\* either buffer, ends in a fault.
C2_NoFault == ~term.fault

\* C3: in every buffer state the handlers can produce, Buffer.Cell(row, col)
\* returns nil for a coordinate outside the grid and a cell of that row for a
\* coordinate inside it; it never faults.
C3_CellNeverFaults ==
    ~term.fault =>
        \A b \in Buffers : \A row \in -1..MaxRows, col \in -1..MaxCols :
            BufferCell(b, row, col).kind = IF InBounds(b, row, col) THEN "cell" ELSE "nil"

\* The pairing of wide cells and spacers in one row slice.
RowPaired(r) ==
    \A j \in 1..Len(r) :
        /\ r[j].wide => (j + 1 <= Len(r) /\ r[j + 1].spacer)
        /\ r[j].spacer => (j - 1 >= 1 /\ r[j - 1].wide)

\* C4: every WideChar cell is immediately followed in its row by a
\* WideCharSpacer cell, and every WideCharSpacer cell is immediately preceded
\* by a WideChar cell.
C4_WidePairing ==
    ~term.fault =>
        \A b \in Buffers : \A i \in 1..Len(b.cells) : RowPaired(b.cells[i])

----------------------------------------------------------------------------
(* ImageManager.  Maps are functions; an image is [Data, Hash, AccessedAt] *)
(* and a placement is [ImageID].  Width, height and placement geometry do  *)
(* not influence storage and are left out.  Ids are uint32 in the source;   *)
(* the ids of the model stay far below 2^32, so no counter wraps.          *)

\* The byte strings a caller may store.
Blobs == UNION {[1..n -> 0..MaxByte] : n \in 1..MaxBlobLen}

\* sha256.Sum256(data): a digest determined by the bytes; no two of the
\* model's byte strings collide.
Hash(data) == <<"sha256", data>>

MapPut(f, k, v) == [x \in (DOMAIN f) \cup {k} |-> IF x = k THEN v ELSE f[x]]

MapDel(f, k) == [x \in (DOMAIN f) \ {k} |-> f[x]]

\* Every image is a candidate, referenced or not.
EveryImage(m) == DOMAIN m.images

\* pruneLocked: the images no placement refers to.
Unreferenced(m) ==
    {id \in DOMAIN m.images :
        \A p \in DOMAIN m.placements : m.placements[p].ImageID # id}

RECURSIVE PruneLoop(_, _)
\* pruneLocked's removal loop over the candidates, oldest access first.  The
\* clock is strictly increasing, so no two images share an access time.
PruneLoop(m, cands) ==
    IF cands = {} \/ m.usedMemory <= m.maxMemory THEN m
    ELSE LET c == CHOOSE x \in cands :
                    \A y \in cands : m.images[x].AccessedAt <= m.images[y].AccessedAt
             img == m.images[c]
         IN PruneLoop([m EXCEPT !.hashToID = MapDel(@, img.Hash),
                                !.images = MapDel(@, c),
                                !.usedMemory = @ - Len(img.Data)],
                      cands \ {c})

\* No pruning at all.
pruneNothing(m) == m

pruneLocked(m) == PruneLoop(m, Unreferenced(m))

\* ImageManager.Store(width, height, data) at clock reading t: the manager
\* afterwards and the id returned.
Store(m, data, t) ==
    LET hash == Hash(data)
    IN IF hash \in DOMAIN m.hashToID /\ m.hashToID[hash] \in DOMAIN m.images
       THEN [m   |-> [m EXCEPT !.images[m.hashToID[hash]].AccessedAt = t],
             ret |-> m.hashToID[hash]]
       ELSE LET id == m.nextImageID + 1
                m1 == [m EXCEPT
                        !.nextImageID = id,
                        !.images = MapPut(@, id,
                                     [Data |-> data, Hash |-> hash, AccessedAt |-> t]),
                        !.hashToID = MapPut(@, hash, id),
                        !.usedMemory = @ + Len(data)]
            IN [m   |-> IF m1.usedMemory > m1.maxMemory THEN pruneLocked(m1) ELSE m1,
                ret |-> id]

\* ImageManager.StoreWithID(id, width, height, data) at clock reading t.
StoreWithID(m, id, data, t) ==
    LET hash == Hash(data)
        m0 == IF id \in DOMAIN m.images
              THEN [m EXCEPT !.usedMemory = @ - Len(m.images[id].Data),
                             !.hashToID = MapDel(@, m.images[id].Hash)]
              ELSE m
        m1 == [m0 EXCEPT
                !.images = MapPut(@, id,
                             [Data |-> data, Hash |-> hash, AccessedAt |-> t]),
                !.hashToID = MapPut(@, hash, id),
                !.usedMemory = @ + Len(data),
                !.nextImageID = IF id >= @ THEN id + 1 ELSE @]
    IN IF m1.usedMemory > m1.maxMemory THEN pruneLocked(m1) ELSE m1

\* ImageManager.Image(id) refreshes the access time of an image it finds.
Image(m, id, t) ==
    IF id \in DOMAIN m.images THEN [m EXCEPT !.images[id].AccessedAt = t] ELSE m

\* ImageManager.Place(p): the manager afterwards and the placement id.
Place(m, imageID) ==
    LET pid == m.nextPlacementID + 1
    IN [m   |-> [m EXCEPT !.nextPlacementID = pid,
                          !.placements = MapPut(@, pid, [ImageID |-> imageID])],
        ret |-> pid]

DeleteImage(m, id) ==
    LET m1 == IF id \in DOMAIN m.images
              THEN [m EXCEPT !.usedMemory = @ - Len(m.images[id].Data),
                             !.hashToID = MapDel(@, m.images[id].Hash),
                             !.images = MapDel(@, id)]
              ELSE m
    IN [m1 EXCEPT !.placements =
            [p \in {q \in DOMAIN @ : @[q].ImageID # id} |-> @[p]]]

Clear(m) ==
    [m EXCEPT !.images = <<>>, !.placements = <<>>, !.hashToID = <<>>,
              !.usedMemory = 0, !.accumulator = <<>>]

SetMaxMemory(m, bytes) == [m EXCEPT !.maxMemory = bytes]

----------------------------------------------------------------------------
(* The image-store specification: one caller drives the Terminal's image   *)
(* manager and switches between the primary and the alternate screen.      *)

InitImages ==
    /\ term = NewTerminal(1, 1, FALSE)
    /\ images = NewImageManager
    /\ now = 0
    /\ thr = [i \in Threads |-> IdleThread]
    /\ env = NewEnv("nil")
    /\ last = NoOp
    /\ steps = 0

\* One image-store call that reads the clock.
ImgStep(m2, op, ret) ==
    /\ steps < MaxImgOps
    /\ images' = m2
    /\ now' = now + 1
    /\ last' = [op |-> op, ret |-> ret, pre |-> images.images]
    /\ steps' = steps + 1
    /\ UNCHANGED <<term, thr, env>>

StoreOp ==
    \E d \in Blobs :
        LET r == Store(images, d, now + 1) IN ImgStep(r.m, "Store", r.ret)

StoreWithIDOp ==
    \E id \in 1..MaxImageID, d \in Blobs :
        ImgStep(StoreWithID(images, id, d, now + 1), "StoreWithID", id)

ImageOp == \E id \in 1..MaxImageID : ImgStep(Image(images, id, now + 1), "Image", id)

PlaceOp ==
    \E id \in 1..MaxImageID :
        LET r == Place(images, id) IN ImgStep(r.m, "Place", r.ret)

DeleteImageOp ==
    \E id \in 1..MaxImageID : ImgStep(DeleteImage(images, id), "DeleteImage", id)

ClearOp == ImgStep(Clear(images), "Clear", 0)

SetMaxMemoryOp ==
    \E b \in 0..MaxBudget : ImgStep(SetMaxMemory(images, b), "SetMaxMemory", b)

\* SetMode(1049) / UnsetMode(1049) on the terminal that owns the store.
AltScreenStep(t2, op) ==
    /\ steps < MaxImgOps
    /\ term' = t2
    /\ last' = [op |-> op, ret |-> 0, pre |-> images.images]
    /\ steps' = steps + 1
    /\ UNCHANGED <<images, now, thr, env>>

SetAltScreen ==
    AltScreenStep(setModeInternal(term, "SwapScreenAndSetRestoreCursor"), "SetMode1049")

UnsetAltScreen ==
    AltScreenStep(unsetModeInternal(term, "SwapScreenAndSetRestoreCursor"), "UnsetMode1049")

NextImages ==
    \/ StoreOp \/ StoreWithIDOp \/ ImageOp \/ PlaceOp \/ DeleteImageOp
    \/ ClearOp \/ SetMaxMemoryOp \/ SetAltScreen \/ UnsetAltScreen

SpecImages == InitImages /\ [][NextImages]_vars

----------------------------------------------------------------------------
(* Properties of the image-store specification *)

ImageCount(m) == Cardinality(DOMAIN m.images)

\* The ids of the images whose bytes are exactly data.
Holding(m, data) == {id \in DOMAIN m.images : m.images[id].Data = data}

\* C8: setting mode 1049 and unsetting it each leave the image store with
\* zero placements and with the image data map as it was before the switch.
C8_AltScreenClearsPlacements ==
    last.op \in {"SetMode1049", "UnsetMode1049"} =>
        /\ DOMAIN images.placements = {}
        /\ images.images = last.pre

\* C9: in any store state, under any budget and for any bytes X, storing X
\* twice in a row returns the same id both times, and the second call raises
\* neither the used memory nor the image count.
C9_DedupLaw ==
    \A d \in Blobs :
        LET first  == Store(images, d, now + 1)
            second == Store(first.m, d, now + 2)
        IN /\ second.ret = first.ret
           /\ second.m.usedMemory <= first.m.usedMemory
           /\ ImageCount(second.m) <= ImageCount(first.m)

\* C10: in every state reached through Store, StoreWithID, DeleteImage,
\* pruning and Clear, storing bytes identical to those of an image the store
\* holds returns that image's id and adds no image.
C10_ContentAddressed ==
    \A d \in Blobs :
        Holding(images, d) # {} =>
            LET r == Store(images, d, now + 1)
            IN /\ r.ret \in Holding(images, d)
               /\ ImageCount(r.m) <= ImageCount(images)

RECURSIVE SumSizes(_, _)
\* The sum of len(Data) over the images with the given ids.
SumSizes(m, ids) ==
    IF ids = {} THEN 0
    ELSE LET id == CHOOSE x \in ids : TRUE
         IN Len(m.images[id].Data) + SumSizes(m, ids \ {id})

\* What a store call that overshot the budget must leave behind.
PruneBound(m) ==
    /\ m.usedMemory = SumSizes(m, DOMAIN m.images)
    /\ \/ m.usedMemory <= m.maxMemory
       \/ Unreferenced(m) = {}

\* Store(d) adds an image (no deduplication hit) and overshoots the budget.
StoreOvershoots(m, d) ==
    /\ ~(Hash(d) \in DOMAIN m.hashToID /\ m.hashToID[Hash(d)] \in DOMAIN m.images)
    /\ m.usedMemory + Len(d) > m.maxMemory

\* StoreWithID(id, d) overshoots the budget after replacing image id.
StoreWithIDOvershoots(m, id, d) ==
    m.usedMemory - (IF id \in DOMAIN m.images THEN Len(m.images[id].Data) ELSE 0)
        + Len(d) > m.maxMemory

\* C11: in every store state, a Store or StoreWithID call that pushes the
\* used memory above the budget returns with used memory within the budget
\* or with every remaining image referenced by a placement, and used memory
\* is the sum of the data sizes of the images in the store.
C11_PruningBound ==
    /\ \A d \in Blobs :
          StoreOvershoots(images, d) => PruneBound(Store(images, d, now + 1).m)
    /\ \A id \in 1..MaxImageID, d \in Blobs :
          StoreWithIDOvershoots(images, id, d) =>
              PruneBound(StoreWithID(images, id, d, now + 1))

\* C11 witness: a Store just overshot the budget, pruning evicted the image
\* it stored, and the store is still over budget with only referenced images.
C11_Witness ==
    /\ last.op = "Store"
    /\ last.ret \notin DOMAIN images.images
    /\ images.usedMemory > images.maxMemory
    /\ DOMAIN images.images # {}
    /\ Unreferenced(images) = {}

\* The images of m that some placement refers to.
Referenced(m) ==
    {id \in DOMAIN m.images :
        \E p \in DOMAIN m.placements : m.placements[p].ImageID = id}

\* C12: in every store state, a Store or StoreWithID call, pruning included,
\* removes no image that a placement existing at the time of the call refers
\* to; such an image keeps its data unless the call is a StoreWithID of its id.
C12_ReferencedKept ==
    /\ \A d \in Blobs :
          LET r == Store(images, d, now + 1).m
          IN \A x \in Referenced(images) :
                x \in DOMAIN r.images /\ r.images[x].Data = images.images[x].Data
    /\ \A id \in 1..MaxImageID, d \in Blobs :
          LET r == StoreWithID(images, id, d, now + 1)
          IN \A x \in Referenced(images) :
                /\ x \in DOMAIN r.images
                /\ x # id => r.images[x].Data = images.images[x].Data

\* C12 witness: a StoreWithID just triggered pruning, which evicted the image
\* it stored, while an older image referenced by a placement is still there.
C12_Witness ==
    /\ last.op = "StoreWithID"
    /\ last.ret \notin DOMAIN images.images
    /\ \E x \in DOMAIN last.pre :
          x \in DOMAIN images.images /\ x \in Referenced(images)

----------------------------------------------------------------------------
(* The locking specification: two threads call entry points of one         *)
(* Terminal.  An entry point is a sequence of lock regions; a region is    *)
(* [lock, act, arg]: the lock mode held around it ("W" for mu.Lock, "R"    *)
(* for mu.RLock, "none" for code outside the lock) and what it does.       *)

Region(lock, act, arg) == [lock |-> lock, act |-> act, arg |-> arg]

\* Every public handler first tests t.middleware, outside the lock.
Wrapper == <<Region("none", "readMiddleware", "")>>

\* writeResponse: RLock; provider := t.responseProvider; RUnlock; then
\* provider.Write(data) if the provider is not nil.
writeResponseUnlocked ==
    <<Region("none", "readProvider", ""), Region("none", "providerWrite", "")>>

writeResponse ==
    <<Region("R", "readProvider", ""), Region("none", "providerWrite", "")>>

\* Input(r): the wrapper, then inputInternal under the write lock.
InputRegions(r) == Wrapper \o <<Region("W", "input", r)>>

\* DeviceStatus(6): the cursor is read under the read lock, the report is
\* written after it is released.
DeviceStatusRegions == Wrapper \o <<Region("R", "readCursor", "")>> \o writeResponse

\* IdentifyTerminal: no Terminal state is read; the reply goes out at once.
IdentifyTerminalRegions == Wrapper \o writeResponse

\* ApplicationCommandReceived with a Kitty query (a=q): the reply goes out
\* from handleKittyGraphics.
KittyQueryRegions == Wrapper \o writeResponse

\* ApplicationCommandReceived with a Kitty transmit-and-display (a=T, i=1,
\* c=1): kittyTransmit stores the image and replies; kittyDisplay looks the
\* image up, reads the cursor under the lock, places the image, assigns it to
\* the cells under the lock, moves the cursor under the lock, and replies.
KittyTransmitDisplayRegions ==
    Wrapper \o <<Region("none", "storeImage", "")>> \o writeResponse
        \o <<Region("none", "lookupImage", ""), Region("W", "readCursor", ""),
             Region("none", "place", ""), Region("W", "assignCells", ""),
             Region("W", "moveCursor", "")>>
        \o writeResponse

\* kittyDisplay's placement of a one-cell image at the cursor it read.
KittyPlacement(cur) == [Row |-> cur.Row, Col |-> cur.Col, Rows |-> 1, Cols |-> 1]

\* kittyDisplay's cursor move past an image cols cells wide.
kittyMoveCursor(t, cols) ==
    LET col == t.cursor.Col + cols
    IN IF col >= t.cols
       THEN [t EXCEPT !.cursor = [Col |-> 0,
                                  Row |-> IF t.cursor.Row + 1 >= t.rows
                                          THEN t.rows - 1 ELSE t.cursor.Row + 1]]
       ELSE [t EXCEPT !.cursor.Col = col]

\* Bell: bellInternal reads t.bellProvider and rings it, all outside the lock.
BellRegions ==
    Wrapper \o <<Region("none", "readBellProvider", ""), Region("none", "ring", "")>>

\* The events the decoder hands to the handlers.
Events ==
    {[h |-> "Input", arg |-> "a"], [h |-> "Input", arg |-> "b"],
     [h |-> "DeviceStatus", arg |-> "6"], [h |-> "IdentifyTerminal", arg |-> ""],
     [h |-> "KittyQuery", arg |-> ""], [h |-> "KittyTransmitDisplay", arg |-> ""],
     [h |-> "Bell", arg |-> ""]}

RegionsOf(e) ==
    CASE e.h = "Input" -> InputRegions(e.arg)
      [] e.h = "DeviceStatus" -> DeviceStatusRegions
      [] e.h = "IdentifyTerminal" -> IdentifyTerminalRegions
      [] e.h = "KittyQuery" -> KittyQueryRegions
      [] e.h = "KittyTransmitDisplay" -> KittyTransmitDisplayRegions
      [] e.h = "Bell" -> BellRegions

\* The data of one Write, as the events the decoder parses out of it.
WriteData == UNION {[1..n -> Events] : n \in 1..MaxEvents}

\* What one event does to the Terminal struct.
ApplyEvent(t, e) ==
    IF e.h = "Input" THEN inputInternal(t, e.arg)
    ELSE IF e.h = "KittyTransmitDisplay"
    THEN kittyMoveCursor(assignImageToCells(t, KittyPlacement(t.cursor)), 1)
    ELSE t

RECURSIVE ApplyAll(_, _)
\* The events of one Write applied in order with nothing in between.
ApplyAll(t, events) ==
    IF events = <<>> THEN t ELSE ApplyAll(ApplyEvent(t, Head(events)), Tail(events))

ConcTerminal == NewTerminal(MaxRows - 1, MaxCols - 1, FALSE)

InitConc ==
    /\ term = ConcTerminal
    /\ images = NewImageManager
    /\ now = 0
    /\ thr = [i \in Threads |-> IdleThread]
    /\ env \in {NewEnv(p) : p \in {"nil", "buf"}}
    /\ last = NoOp
    /\ steps = 0

Idle(i) == thr[i].todo = <<>> /\ thr[i].queue = <<>>

ConcUnchanged == UNCHANGED <<images, now, last, steps>>

\* Terminal.Write(data): Record(data) on the recording provider, then the
\* decoder dispatches the events one by one.
CallWrite(i) ==
    /\ Idle(i) /\ thr[i].calls < MaxCalls
    /\ \E data \in WriteData :
          thr' = [thr EXCEPT ![i] = [@ EXCEPT
                    !.todo = <<Region("none", "record", "")>>,
                    !.queue = data, !.entry = "Write", !.data = data,
                    !.calls = @ + 1]]
    /\ UNCHANGED <<term, env>> /\ ConcUnchanged

\* SetMiddleware, SetResponseProvider, SetBellProvider: Lock; store; Unlock.
CallSetter(i) ==
    /\ Idle(i) /\ thr[i].calls < MaxCalls
    /\ \E r \in {Region("W", "storeMiddleware", "nil"),
                 Region("W", "storeMiddleware", "pass"),
                 Region("W", "storeResponseProvider", "nil"),
                 Region("W", "storeResponseProvider", "buf"),
                 Region("W", "storeBellProvider", "nil"),
                 Region("W", "storeBellProvider", "bell")} :
          thr' = [thr EXCEPT ![i] = [@ EXCEPT
                    !.todo = <<r>>, !.entry = "Setter", !.data = <<>>,
                    !.calls = @ + 1]]
    /\ UNCHANGED <<term, env>> /\ ConcUnchanged

\* The decoder calls the handler of the next event of the Write.
Dispatch(i) ==
    /\ thr[i].todo = <<>> /\ thr[i].queue # <<>>
    /\ thr' = [thr EXCEPT ![i] = [@ EXCEPT
                    !.todo = RegionsOf(Head(thr[i].queue)),
                    !.queue = Tail(@)]]
    /\ UNCHANGED <<term, env>> /\ ConcUnchanged

\* sync.RWMutex: Lock waits for all holders, RLock waits for a writer.
LockFree(i, mode) ==
    IF mode = "W" THEN \A j \in Threads : thr[j].held = "none"
    ELSE \A j \in Threads : thr[j].held # "W"

\* mu.Lock() / mu.RLock() at the start of a region.
Acquire(i) ==
    /\ thr[i].todo # <<>>
    /\ Head(thr[i].todo).lock # "none"
    /\ thr[i].held = "none"
    /\ LockFree(i, Head(thr[i].todo).lock)
    /\ thr' = [thr EXCEPT ![i].held = Head(thr[i].todo).lock]
    /\ UNCHANGED <<term, env>> /\ ConcUnchanged

\* The thread is about to run the body of its current region.
Poised(i) ==
    /\ thr[i].todo # <<>>
    /\ ~thr[i].did
    /\ (Head(thr[i].todo).lock = "none" \/ thr[i].held = Head(thr[i].todo).lock)

\* The thread after the body of its region ran: a region outside the lock is
\* finished; a locked one still has to unlock.  drop = TRUE skips the call
\* that follows a nil provider.
AfterBody(th, drop) ==
    LET rest == IF drop THEN Tail(Tail(th.todo)) ELSE Tail(th.todo)
    IN IF Head(th.todo).lock = "none"
       THEN [th EXCEPT !.todo = rest]
       ELSE [th EXCEPT !.did = TRUE,
                       !.todo = IF drop THEN <<Head(@)>> \o rest ELSE @]

\* The body of the current region.
Perform(i) ==
    /\ Poised(i)
    /\ LET r == Head(thr[i].todo)
           th == thr[i]
       IN CASE r.act = "input" ->
                 /\ term' = inputInternal(term, r.arg)
                 /\ thr' = [thr EXCEPT ![i] = AfterBody(th, FALSE)]
                 /\ UNCHANGED <<env, images, now>>
            [] r.act = "moveCursor" ->
                 /\ term' = kittyMoveCursor(term, 1)
                 /\ thr' = [thr EXCEPT ![i] = AfterBody(th, FALSE)]
                 /\ UNCHANGED <<env, images, now>>
            [] r.act = "storeImage" ->
                 /\ images' = StoreWithID(images, 1, <<0>>, now + 1)
                 /\ now' = now + 1
                 /\ thr' = [thr EXCEPT ![i] = AfterBody(th, FALSE)]
                 /\ UNCHANGED <<term, env>>
            [] r.act = "lookupImage" ->
                 /\ images' = Image(images, 1, now + 1)
                 /\ now' = now + 1
                 /\ thr' = [thr EXCEPT ![i] =
                        IF 1 \in DOMAIN images.images THEN AfterBody(th, FALSE)
                        ELSE [th EXCEPT !.todo = writeResponse]]
                 /\ UNCHANGED <<term, env>>
            [] r.act = "place" ->
                 /\ images' = Place(images, 1).m
                 /\ thr' = [thr EXCEPT ![i] = AfterBody(th, FALSE)]
                 /\ UNCHANGED <<term, env, now>>
            [] r.act = "readProvider" ->
                 /\ thr' = [thr EXCEPT ![i] =
                        [AfterBody(th, env.responseProvider = "nil") EXCEPT
                            !.provider = env.responseProvider,
                            !.provLocked = (th.held = "R")]]
                 /\ UNCHANGED <<term, env, images, now>>
            [] r.act = "providerWrite" ->
                 /\ env' = [env EXCEPT !.out = @ + 1]
                 /\ thr' = [thr EXCEPT ![i] = AfterBody(th, FALSE)]
                 /\ UNCHANGED <<term, images, now>>
            [] r.act = "readBellProvider" ->
                 /\ thr' = [thr EXCEPT ![i] =
                        [AfterBody(th, env.bellProvider = "nil") EXCEPT
                            !.provider = env.bellProvider]]
                 /\ UNCHANGED <<term, env, images, now>>
            [] r.act = "ring" ->
                 /\ env' = [env EXCEPT !.rings = IF th.provider = "bell" THEN @ + 1 ELSE @]
                 /\ thr' = [thr EXCEPT ![i] = AfterBody(th, FALSE)]
                 /\ UNCHANGED <<term, images, now>>
            [] r.act = "storeMiddleware" ->
                 /\ env' = [env EXCEPT !.middleware = r.arg]
                 /\ thr' = [thr EXCEPT ![i] = AfterBody(th, FALSE)]
                 /\ UNCHANGED <<term, images, now>>
            [] r.act = "storeResponseProvider" ->
                 /\ env' = [env EXCEPT !.responseProvider = r.arg]
                 /\ thr' = [thr EXCEPT ![i] = AfterBody(th, FALSE)]
                 /\ UNCHANGED <<term, images, now>>
            [] r.act = "storeBellProvider" ->
                 /\ env' = [env EXCEPT !.bellProvider = r.arg]
                 /\ thr' = [thr EXCEPT ![i] = AfterBody(th, FALSE)]
                 /\ UNCHANGED <<term, images, now>>
            [] r.act = "readCursor" ->
                 \* curRow, curCol: the cursor as kittyDisplay saw it.
                 /\ thr' = [thr EXCEPT ![i] =
                        [AfterBody(th, FALSE) EXCEPT !.cur = term.cursor]]
                 /\ UNCHANGED <<term, env, images, now>>
            [] r.act = "assignCells" ->
                 /\ term' = assignImageToCells(term, KittyPlacement(th.cur))
                 /\ thr' = [thr EXCEPT ![i] =
                        [AfterBody(th, FALSE) EXCEPT !.cur = IdleThread.cur]]
                 /\ UNCHANGED <<env, images, now>>
            [] OTHER ->
                 \* readMiddleware, record: reads with no effect.
                 /\ thr' = [thr EXCEPT ![i] = AfterBody(th, FALSE)]
                 /\ UNCHANGED <<term, env, images, now>>
    /\ UNCHANGED <<last, steps>>

\* mu.Unlock() / mu.RUnlock() at the end of a region.
Release(i) ==
    /\ thr[i].todo # <<>>
    /\ thr[i].did
    /\ thr' = [thr EXCEPT ![i] = [@ EXCEPT
                    !.held = "none", !.did = FALSE, !.todo = Tail(@)]]
    /\ UNCHANGED <<term, env>> /\ ConcUnchanged

NextConc ==
    \E i \in Threads :
        \/ CallWrite(i) \/ CallSetter(i) \/ Dispatch(i)
        \/ Acquire(i) \/ Perform(i) \/ Release(i)

SpecConc == InitConc /\ [][NextConc]_vars

----------------------------------------------------------------------------
(* Properties of the locking specification *)

\* Both threads have each made one call, a Write, and both Writes returned.
BothWritesDone ==
    \A i \in Threads : thr[i].entry = "Write" /\ thr[i].calls = 1 /\ Idle(i)

\* The Terminal after the two Writes ran one after the other, in either order.
SerialOutcomes ==
    {ApplyAll(ApplyAll(ConcTerminal, thr[1].data), thr[2].data),
     ApplyAll(ApplyAll(ConcTerminal, thr[2].data), thr[1].data)}

\* C5: when two threads call Write concurrently, the final terminal state is
\* the state of running the two Writes one after the other in one of the two
\* orders.
C5_WritesSerialized == BothWritesDone => term \in SerialOutcomes

\* The Terminal field the body of a region touches, and whether it stores.
FieldOf(act) ==
    CASE act \in {"readMiddleware", "storeMiddleware"} -> "middleware"
      [] act \in {"readProvider", "storeResponseProvider"} -> "responseProvider"
      [] act \in {"readBellProvider", "storeBellProvider"} -> "bellProvider"
      [] act \in {"input", "readCursor", "assignCells", "moveCursor"} -> "grid"
      [] act = "record" -> "recordingProvider"
      [] OTHER -> "none"

IsStore(act) ==
    act \in {"storeMiddleware", "storeResponseProvider", "storeBellProvider",
             "input", "assignCells", "moveCursor"}

\* Thread i is about to read field f without holding the lock while thread j
\* is about to store to f.
RacyRead(i, j) ==
    /\ i # j /\ Poised(i) /\ Poised(j)
    /\ thr[i].held = "none"
    /\ FieldOf(Head(thr[i].todo).act) # "none"
    /\ FieldOf(Head(thr[i].todo).act) = FieldOf(Head(thr[j].todo).act)
    /\ IsStore(Head(thr[j].todo).act)

\* C6: entry points touch Terminal state only under the Terminal's lock: no
\* entry point reads a field (middleware table, provider handle) without the
\* lock while another thread is writing that field.
C6_NoRacyRead == \A i, j \in Threads : ~RacyRead(i, j)

AtProviderWrite(i) ==
    thr[i].todo # <<>> /\ Head(thr[i].todo).act = "providerWrite"

\* C7: whenever a thread is about to invoke the response provider's Write, it
\* does not hold the Terminal's write lock, and it read the provider handle
\* while holding the read lock.
C7_ResponseOutsideLock ==
    \A i \in Threads :
        AtProviderWrite(i) => (thr[i].held # "W" /\ thr[i].provLocked)

\* C7 witness: a device status report is about to be written to a response
\* sink while the other thread is inside the write lock.
C7_Witness ==
    \E i, j \in Threads :
        /\ AtProviderWrite(i) /\ thr[i].provider = "buf"
        /\ \E k \in 1..Len(thr[i].data) : thr[i].data[k].h = "DeviceStatus"
        /\ thr[j].held = "W"

----------------------------------------------------------------------------
(* The history specification: one caller drives a Terminal built with a    *)
(* scrollback provider through its handlers, the dirty sweep, the          *)
(* scrollback setters, Resize and the Kitty transmit-and-display command;  *)
(* last records the call just made and the Terminal it was made on.        *)

MaxOps == 3
MaxScrollback == 2

\* The providers WithScrollback may install: the default NoopScrollback or a
\* MemoryScrollback of some capacity.
Storages == {NoopScrollback} \cup {NewMemoryScrollback(k) : k \in 1..MaxScrollback}

\* New(WithSize(rows, cols), WithScrollback(storage), WithAutoResize()).
InitTrace ==
    /\ term \in {NewTerminalWithScrollback(r, c, a, s) :
                    r \in 1..MaxRows, c \in {MaxCols - 1}, a \in BOOLEAN,
                    s \in Storages}
    /\ images = NewImageManager
    /\ now = 0
    /\ thr = [i \in Threads |-> IdleThread]
    /\ env = NewEnv("nil")
    /\ last = NoOp
    /\ steps = 0

\* One call on a live Terminal, recorded with its argument.
Rec(op, arg, t2) ==
    /\ ~term.fault
    /\ steps < MaxOps
    /\ WithinBounds(t2)
    /\ term' = t2
    /\ last' = [op |-> op, ret |-> arg, pre |-> term]
    /\ steps' = steps + 1
    /\ UNCHANGED <<thr, env>>

\* A call that leaves the image manager and the clock alone.
Call(op, arg, t2) == Rec(op, arg, t2) /\ UNCHANGED <<images, now>>

\* handleKittyGraphics for a=T, i=1 with r rows and c columns: kittyTransmit
\* stores the image, kittyDisplay looks it up, places it at the cursor,
\* assigns it to the cells and moves the cursor.
KittyTransmitDisplay ==
    \E r \in 1..2, c \in 1..2 :
        LET m1 == StoreWithID(images, 1, <<0>>, now + 1)
            m2 == Image(m1, 1, now + 2)
            p  == [KittyPlacement(term.cursor) EXCEPT !.Rows = r, !.Cols = c]
        IN /\ Rec("KittyTransmitDisplay", 0,
                  kittyMoveCursor(assignImageToCells(term, p), c))
           /\ images' = Place(m2, 1).m
           /\ now' = now + 2

NextTrace ==
    \/ Call("Backspace", 0, backspaceInternal(term))
    \/ Call("CarriageReturn", 0, carriageReturnInternal(term))
    \/ \E m \in {"Right", "Left", "All"} : Call("ClearLine", 0, clearLineInternal(term, m))
    \/ \E m \in {"Below", "Above", "All", "Saved"} :
          Call("ClearScreen", 0, clearScreenInternal(term, m))
    \/ Call("Decaln", 0, decalnInternal(term))
    \/ \E n \in Args : Call("DeleteChars", 0, deleteCharsInternal(term, n))
    \/ \E n \in Args : Call("DeleteLines", 0, deleteLinesInternal(term, n))
    \/ \E n \in Args : Call("EraseChars", 0, eraseCharsInternal(term, n))
    \/ \E r \in Args, c \in Args : Call("Goto", 0, gotoInternal(term, r, c))
    \/ \E r \in Runes : Call("Input", 0, inputInternal(term, r))
    \/ \E n \in Args : Call("InsertBlank", 0, insertBlankInternal(term, n))
    \/ \E n \in Args : Call("InsertBlankLines", 0, insertBlankLinesInternal(term, n))
    \/ Call("LineFeed", 0, lineFeedInternal(term))
    \/ Call("ResetState", 0, resetStateInternal(term))
    \/ Call("RestoreCursorPosition", 0, restoreCursorPositionInternal(term))
    \/ Call("ReverseIndex", 0, reverseIndexInternal(term))
    \/ Call("SaveCursorPosition", 0, saveCursorPositionInternal(term))
    \/ \E n \in Args : Call("ScrollDown", 0, scrollDownInternal(term, n))
    \/ \E n \in Args : Call("ScrollUp", n, scrollUpInternal(term, n))
    \/ \E m \in Modes : Call("SetMode", 0, setModeInternal(term, m))
    \/ \E m \in Modes : Call("UnsetMode", 0, unsetModeInternal(term, m))
    \/ \E top \in Args, bottom \in Args :
          Call("SetScrollingRegion", 0, setScrollingRegionInternal(term, top, bottom))
    \/ Call("Substitute", 0, substituteInternal(term))
    \/ \E r \in -1..MaxRows, c \in 0..MaxCols :
          Call("Resize", <<r, c>>, Resize(term, r, c))
    \/ Call("ClearDirty", 0, ClearDirty(term))
    \/ Call("ClearScrollback", 0, ClearScrollback(term))
    \/ \E k \in 0..MaxScrollback : Call("SetMaxScrollback", 0, SetMaxScrollback(term, k))
    \/ KittyTransmitDisplay

SpecTrace == InitTrace /\ [][NextTrace]_vars

----------------------------------------------------------------------------
(* Properties of the history specification *)

\* The cells of b1 that were dirty in b0 and are clean in b1.
CleanedCells(b0, b1) ==
    {p \in DirtyCells(b0) :
        /\ p[1] < Len(b1.cells)
        /\ p[2] < Len(b1.cells[p[1] + 1])
        /\ ~b1.cells[p[1] + 1][p[2] + 1].dirty}

\* C13: the Dirty flag of a cell is cleared only by the explicit sweep
\* (ClearDirty / ClearAllDirty): no other call leaves a cell clean that was
\* dirty before it, in the primary or in the alternate buffer.
C13_DirtyOnlySwept ==
    (last.op \notin {"New", "ClearDirty"} /\ ~term.fault) =>
        /\ CleanedCells(last.pre.primaryBuffer, term.primaryBuffer) = {}
        /\ CleanedCells(last.pre.alternateBuffer, term.alternateBuffer) = {}

\* C14: the summary bit is the OR of the per-cell dirty bits: HasDirty()
\* holds exactly when DirtyCells() is non-empty.
C14_HasDirtySummary ==
    ~term.fault =>
        (HasDirty(ActiveBuf(term)) <=> DirtyCells(ActiveBuf(term)) # {})

\* The calls that set the scrollback itself.
ScrollbackSetters == {"ClearScrollback", "SetMaxScrollback"}

\* sb1 holds no line that sb0 did not hold: it is a tail of sb0.
NoRowAdded(sb0, sb1) == sb1.lines = LastN(sb0.lines, Len(sb1.lines))

\* C15: the alternate buffer has no scrollback.  A call made while the
\* alternate buffer is active (line feed, wrap, scroll up, delete lines, a
\* Resize that shrinks the rows, ...) adds no row to the scrollback and, unless
\* it is one of the scrollback setters, leaves its length and contents as they
\* were; the alternate buffer's own provider stays the empty NoopScrollback.
C15_AltNoScrollback ==
    (last.op # "New" /\ last.pre.activeBuffer = "alternate") =>
        /\ NoRowAdded(last.pre.primaryBuffer.scrollback, term.primaryBuffer.scrollback)
        /\ last.op \notin ScrollbackSetters =>
              term.primaryBuffer.scrollback = last.pre.primaryBuffer.scrollback
        /\ term.alternateBuffer.scrollback = NoopScrollback

\* A Resize on the alternate screen that removes the row of the cursor, on a
\* Terminal whose primary buffer has a MemoryScrollback.
C15_Witness ==
    /\ last.op = "Resize"
    /\ last.pre.activeBuffer = "alternate"
    /\ last.pre.primaryBuffer.scrollback.kind = "memory"
    /\ last.ret[1] > 0 /\ last.ret[2] > 0
    /\ last.ret[1] < last.pre.rows
    /\ last.pre.cursor.Row >= last.ret[1]
    /\ term.rows = last.ret[1]

\* C19: Resize(rows, cols) with rows <= 0 or cols <= 0 is ignored: the
\* dimensions, both buffers, the cursor, the scroll region and the scrollback
\* are exactly as they were before the call.
C19_InvalidResizeIgnored ==
    \A r \in -1..MaxRows, c \in -1..MaxCols :
        (r <= 0 \/ c <= 0) => Resize(term, r, c) = term

\* An ignored Resize was made on a Terminal with text and a moved cursor.
C19_Witness ==
    /\ last.op = "Resize"
    /\ (last.ret[1] <= 0 \/ last.ret[2] <= 0)
    /\ term = last.pre
    /\ term.cursor # [Row |-> 0, Col |-> 0]
    /\ DirtyCells(term.primaryBuffer) # {}

\* The scrollback lines after rows[1..k] were appended to a provider of the
\* given capacity.
Appended(sb, rows, k) == LastN(sb.lines \o SubSeq(rows, 1, k), sb.maxLines)

\* C16 as stated: on the primary buffer with a provider of capacity > 0, every
\* ScrollUp(0, bottom, n) pushes exactly n rows into scrollback, the former
\* rows 0..n-1 in top-to-bottom order, so the length grows by n or is trimmed
\* to capacity.
C16_PushesExactlyN ==
    LET b == term.primaryBuffer
    IN (~term.fault /\ b.scrollback.maxLines > 0) =>
          \A bottom \in 1..(MaxRows + 1), n \in 1..(MaxArg + 1) :
              /\ n <= b.rows
              /\ ScrollUp(b, 0, bottom, n).scrollback.lines = Appended(b.scrollback, b.cells, n)

\* C16: on the primary buffer with a provider of capacity > 0, every
\* ScrollUp(0, bottom, n) with n > 0 pushes exactly min(n, bottom, rows) rows
\* into scrollback, the former rows 0..min(n, bottom, rows)-1 in
\* top-to-bottom order, so the length grows by that number or is trimmed to
\* capacity.
C16_PushesClampedN ==
    LET b == term.primaryBuffer
    IN (~term.fault /\ b.scrollback.maxLines > 0) =>
          \A bottom \in 1..(MaxRows + 1), n \in 1..(MaxArg + 1) :
              LET k  == Min(n, Min(bottom, b.rows))
                  sb == ScrollUp(b, 0, bottom, n).scrollback
              IN /\ sb.lines = Appended(b.scrollback, b.cells, k)
                 /\ Len(sb.lines) = Min(Len(b.scrollback.lines) + k, sb.maxLines)
                 /\ sb.maxLines = b.scrollback.maxLines

\* A ScrollUp asked for more rows than the region holds, on a primary buffer
\* whose scrollback was already full: the rows pushed are a written row of
\* the region and the oldest line was trimmed.
C16_Witness ==
    /\ last.op = "ScrollUp"
    /\ last.pre.activeBuffer = "primary"
    /\ last.pre.scrollTop = 0
    /\ last.ret > Min(last.pre.scrollBottom, last.pre.rows)
    /\ last.pre.primaryBuffer.scrollback.maxLines > 0
    /\ Len(last.pre.primaryBuffer.scrollback.lines) = last.pre.primaryBuffer.scrollback.maxLines
    /\ term.primaryBuffer.scrollback.lines # last.pre.primaryBuffer.scrollback.lines
    /\ \E j \in 1..Len(last.pre.primaryBuffer.cells[1]) :
          last.pre.primaryBuffer.cells[1][j].ch # " "

\* Two rows show the same text in the columns they both have.
SameText(r1, r2) ==
    \A j \in 1..Min(Len(r1), Len(r2)) :
        /\ r1[j].ch = r2[j].ch
        /\ r1[j].wide = r2[j].wide
        /\ r1[j].spacer = r2[j].spacer

\* C20: when Resize reduces the row count on the primary buffer, for every
\* cursor position and every pair of old and new row counts, the line the
\* cursor was on before the resize is still in the viewport afterwards, at
\* the cursor's new row, and the lines removed from the viewport are the ones
\* above it (the old - new topmost lines), moved to scrollback when the
\* provider has capacity.
C20_ShrinkKeepsCursorLine ==
    (/\ last.op = "Resize"
     /\ last.ret[1] > 0 /\ last.ret[2] > 0
     /\ last.pre.activeBuffer = "primary"
     /\ last.ret[1] < last.pre.rows
     /\ ~term.fault) =>
        LET old   == last.pre.primaryBuffer
            new   == term.primaryBuffer
            gone  == last.pre.rows - term.rows
        IN /\ SameText(new.cells[term.cursor.Row + 1], old.cells[last.pre.cursor.Row + 1])
           /\ last.pre.cursor.Row - term.cursor.Row = gone
           /\ \A i \in 1..term.rows : SameText(new.cells[i], old.cells[i + gone])
           /\ old.scrollback.maxLines > 0 =>
                 new.scrollback.lines = Appended(old.scrollback, old.cells, gone)

----------------------------------------------------------------------------
(* The attribute specification: one caller sets character attributes and   *)
(* writes characters, with the handlers that copy, save, restore or reset  *)
(* the cell template.                                                      *)

SetTerminalCharAttribute ==
    \E a \in CharAttributes : Step(setTerminalCharAttributeInternal(term, a))

NextAttr ==
    \/ SetTerminalCharAttribute \/ Input \/ CarriageReturn \/ LineFeed
    \/ EraseChars \/ InsertBlank \/ SaveCursorPosition \/ RestoreCursorPosition
    \/ ResetState \/ SetMode \/ UnsetMode

SpecAttr == Init /\ [][NextAttr]_vars

\* C17: underline exclusivity: after any sequence of SetTerminalCharAttribute
\* calls and character writes, at most one of the five underline flags is set
\* on the template and on every cell.
C17_UnderlineExclusive ==
    /\ Cardinality(term.template.ul \cap UnderlineFlags) <= 1
    /\ \A b \in Buffers : \A i \in 1..Len(b.cells) : \A j \in 1..Len(b.cells[i]) :
          Cardinality(b.cells[i][j].ul \cap UnderlineFlags) <= 1

\* The template was switched from one underline variant to another between
\* two character writes: a written cell carries one variant, the template
\* another.
C17_Witness ==
    /\ term.template.ul # {}
    /\ \E b \in Buffers : \E i \in 1..Len(b.cells) : \E j \in 1..Len(b.cells[i]) :
          /\ b.cells[i][j].ch # " "
          /\ b.cells[i][j].ul # {}
          /\ b.cells[i][j].ul # term.template.ul

----------------------------------------------------------------------------
(* The replay specification: Terminal A is built with a MemoryRecording    *)
(* and driven by Write calls only.  The decoder is the external            *)
(* go-ansicode package; it is modelled by its contract: a streaming        *)
(* tokenizer that keeps its parser state between Write calls and raises    *)
(* one handler call per control sequence or input codepoint.               *)

MaxWrites == 3
MaxChunk == 2

\* The bytes of the model: a printable letter, line feed, escape, and the
\* final bytes of ESC M (reverse index) and ESC # 8 (DECALN).
Bytes == {"a", "LF", "ESC", "M", "#", "8"}

\* The arguments of one Write call.
Chunks == UNION {[1..n -> Bytes] : n \in 1..MaxChunk}

\* A Record that keeps only the bytes of the latest call.
RecordLast(rec, data) == data

\* MemoryRecording.Record(data): append to what was recorded.
Record(rec, data) == rec \o data

\* The decoder on one byte: s.t is the Terminal, s.d the parser state.
DecodeByte(s, b) ==
    IF s.t.fault THEN s
    ELSE CASE b = "ESC" -> [s EXCEPT !.d = "escape"]
           [] b # "ESC" /\ s.d = "ground" ->
                [s EXCEPT !.t = IF b = "LF" THEN lineFeedInternal(@)
                                ELSE inputInternal(@, b)]
           [] b # "ESC" /\ s.d = "escape" ->
                IF b = "#" THEN [s EXCEPT !.d = "hash"]
                ELSE [s EXCEPT !.d = "ground",
                               !.t = IF b = "M" THEN reverseIndexInternal(@) ELSE @]
           [] b # "ESC" /\ s.d = "hash" ->
                [s EXCEPT !.d = "ground",
                          !.t = IF b = "8" THEN decalnInternal(@) ELSE @]

RECURSIVE DecoderWrite(_, _)
\* decoder.Write(data): the bytes of data in order.
DecoderWrite(s, data) ==
    IF data = <<>> THEN s
    ELSE DecoderWrite(DecodeByte(s, Head(data)), Tail(data))

\* New(WithRecording(NewMemoryRecording())): nothing recorded, the decoder in
\* its ground state.
NewEnvRecording ==
    [middleware |-> "nil", responseProvider |-> "nil", bellProvider |-> "noop",
     out |-> 0, rings |-> 0, recording |-> <<>>, decoder |-> "ground"]

\* New(WithSize(r, c), WithRecording(rec)) with or without WithAutoResize();
\* last.pre keeps the Terminal as constructed.
InitReplay ==
    /\ term \in {NewTerminal(r, c, a) : r \in 1..2, c \in 1..2, a \in BOOLEAN}
    /\ images = NewImageManager
    /\ now = 0
    /\ thr = [i \in Threads |-> IdleThread]
    /\ env = NewEnvRecording
    /\ last = [op |-> "New", ret |-> <<>>, pre |-> term, mid |-> "ground"]
    /\ steps = 0

\* Terminal.Write(data): record the raw bytes, then decode them.  last.mid is
\* the parser state the call found.
Write ==
    \E data \in Chunks :
        LET s == DecoderWrite([t |-> term, d |-> env.decoder], data)
        IN /\ ~term.fault
           /\ steps < MaxWrites
           /\ WithinBounds(s.t)
           /\ term' = s.t
           /\ env' = [env EXCEPT !.recording = Record(@, data), !.decoder = s.d]
           /\ last' = [last EXCEPT !.op = "Write", !.ret = data, !.mid = env.decoder]
           /\ steps' = steps + 1
           /\ UNCHANGED <<images, now, thr>>

NextReplay == Write

SpecReplay == InitReplay /\ [][NextReplay]_vars

\* Buffer.LineContent(row): the characters up to the last cell that is
\* neither a space nor a wide spacer, the spacers left out; indexing a row
\* shorter than b.cols panics.
LineContent(b, row) ==
    IF row < 0 \/ row >= b.rows THEN <<>>
    ELSE IF RowLen(b, row) < b.cols THEN <<"panic">>
    ELSE LET cells == b.cells[row + 1]
             solid == {j \in 1..b.cols : cells[j].ch # " " /\ ~cells[j].spacer}
             lastNonSpace == IF solid = {} THEN 0
                             ELSE CHOOSE j \in solid : \A k \in solid : k <= j
             kept == SelectSeq(SubSeq(cells, 1, lastNonSpace), LAMBDA c : ~c.spacer)
         IN [j \in 1..Len(kept) |-> kept[j].ch]

RECURSIVE JoinLines(_, _, _)
\* The lines of rows 0..upto of b joined by newlines.
JoinLines(b, row, upto) ==
    IF row > upto THEN <<>>
    ELSE (IF row > 0 THEN <<"\n">> ELSE <<>>) \o LineContent(b, row)
            \o JoinLines(b, row + 1, upto)

\* Terminal.String(): the lines of the active buffer up to the last
\* non-empty one.
String(t) ==
    LET b == ActiveBuf(t)
        nonEmpty == {row \in 0..(t.rows - 1) : LineContent(b, row) # <<>>}
    IN IF nonEmpty = {} THEN <<>>
       ELSE JoinLines(b, 0, CHOOSE r \in nonEmpty : \A q \in nonEmpty : q <= r)

\* Terminal B after A's recorded bytes were written to the fresh Terminal t0.
Replayed(t0) == DecoderWrite([t |-> t0, d |-> "ground"], env.recording).t

\* String() of t returns: no row of the active buffer is shorter than cols.
StringReturns(t) == "panic" \notin {String(t)[i] : i \in 1..Len(String(t))}

C21_GrowPullsFromScrollback ==
    (/\ last.op = "Resize"
     /\ last.ret[1] > 0 /\ last.ret[2] > 0
     /\ last.pre.activeBuffer = "primary"
     /\ last.ret[1] > last.pre.rows
     /\ last.pre.primaryBuffer.scrollback.lines # <<>>
     /\ ~term.fault) =>
        LET old == last.pre.primaryBuffer.scrollback.lines
            new == term.primaryBuffer.scrollback.lines
        IN \E k \in 1..Min(last.ret[1] - last.pre.rows, Len(old)) :
              /\ new = SubSeq(old, 1, Len(old) - k)
              /\ \A i \in 1..k :
                    SameText(term.primaryBuffer.cells[i], old[Len(old) - k + i])

\* C22: SetScrollingRegion(top, bottom) takes 1-based inputs and converts them
\* to a 0-based region with bottom exclusive: for 1 <= top < bottom <= rows
\* the resulting scroll region is [top-1, bottom), covering exactly the
\* requested lines top..bottom.
C22_ScrollRegionConversion ==
    ~term.fault =>
        \A top \in 1..MaxRows, bottom \in 1..MaxRows :
            (top < bottom /\ bottom <= term.rows) =>
                LET t2 == setScrollingRegionInternal(term, top, bottom)
                IN t2.scrollTop = top - 1 /\ t2.scrollBottom = bottom


----------------------------------------------------------------------------
(* The graphics specification: one caller feeds Kitty graphics commands    *)
(* and Sixel images to a terminal built with or without WithKitty(false)   *)
(* and WithSixel(false), resets it and clears its image store.  A command  *)
(* is the KittyCommand ParseKittyGraphics returns; a Sixel image is the    *)
(* outcome of ParseSixel.  Every image is one pixel wide and high, so with  *)
(* the default cell size of 10x20 pixels it covers one cell unless the     *)
(* command names a cell size.  The responses are those handed to           *)
(* writeResponseString, in order.                                          *)

MaxKittyOps == 3

KittyFormatRGB  == 24
KittyFormatRGBA == 32
KittyFormatPNG  == 100

\* WithSixel(enabled) and WithKitty(enabled).
WithSixel(t, enabled) == [t EXCEPT !.sixelEnabled = enabled]

WithKitty(t, enabled) == [t EXCEPT !.kittyEnabled = enabled]

\* FormatKittyResponse(imageID, message, isError): ESC _ G [i=<id>] ; <msg> ESC \.
FormatKittyResponse(imageID, message, isError) ==
    <<"ESC_G">> \o (IF imageID > 0 THEN <<"i=", imageID>> ELSE <<>>)
        \o <<";", IF isError THEN message ELSE "OK", "ESC\\">>

RECURSIVE RGBToRGBA(_)
\* DecodeImageData's conversion loop: an opaque alpha byte after every pixel.
RGBToRGBA(data) ==
    IF Len(data) < 3 THEN <<>>
    ELSE SubSeq(data, 1, 3) \o <<255>> \o RGBToRGBA(SubSeq(data, 4, Len(data)))

\* cmd.DecodeImageData() of an uncompressed payload.  No payload of the
\* model is long enough to hold a PNG signature, so decodePNG fails.
DecodeImageData(cmd) ==
    LET fail == [data |-> <<>>, width |-> 0, height |-> 0, err |-> TRUE]
        px   == IF cmd.Format = KittyFormatRGB THEN 3 ELSE 4
        expected == cmd.Width * cmd.Height * px
    IN IF cmd.Format \notin {KittyFormatRGB, KittyFormatRGBA} THEN fail
       ELSE IF cmd.Width = 0 \/ cmd.Height = 0 THEN fail
       ELSE IF Len(cmd.Payload) < expected THEN fail
       ELSE [data   |-> IF cmd.Format = KittyFormatRGB
                        THEN RGBToRGBA(SubSeq(cmd.Payload, 1, expected))
                        ELSE SubSeq(cmd.Payload, 1, expected),
             width  |-> cmd.Width,
             height |-> cmd.Height,
             err    |-> FALSE]

\* kittyTransmit at clock reading t: the store and the command afterwards,
\* the responses written, and the payload handed to the decoder, if any.
\* accumulatorID is written and never read, and is left out.
kittyTransmit(m, cmd, t) ==
    IF cmd.More
    THEN [m       |-> [m EXCEPT !.accumulator = @ \o cmd.Payload,
                                !.accumulatorMore = TRUE],
          cmd     |-> cmd,
          resp    |-> <<>>,
          decoded |-> <<>>]
    ELSE LET payload == IF m.accumulatorMore THEN m.accumulator \o cmd.Payload
                        ELSE cmd.Payload
             m1 == IF m.accumulatorMore
                   THEN [m EXCEPT !.accumulator = <<>>, !.accumulatorMore = FALSE]
                   ELSE m
             d  == DecodeImageData([cmd EXCEPT !.Payload = payload])
         IN IF d.err \/ d.width = 0 \/ d.height = 0
            THEN [m       |-> m1,
                  cmd     |-> [cmd EXCEPT !.Payload = payload],
                  resp    |-> IF cmd.Quiet < 2
                              THEN <<FormatKittyResponse(cmd.ImageID, "ENODATA", TRUE)>>
                              ELSE <<>>,
                  decoded |-> <<payload>>]
            ELSE LET s  == IF cmd.ImageID > 0
                           THEN [m   |-> StoreWithID(m1, cmd.ImageID, d.data, t),
                                 ret |-> cmd.ImageID]
                           ELSE Store(m1, d.data, t)
                 IN [m       |-> s.m,
                     cmd     |-> [cmd EXCEPT !.Payload = payload, !.ImageID = s.ret],
                     resp    |-> IF cmd.Quiet < 1
                                 THEN <<FormatKittyResponse(s.ret, "", FALSE)>>
                                 ELSE <<>>,
                     decoded |-> <<payload>>]

\* kittyDisplay's placement, cell marking and cursor move for an image found.
kittyDisplayPlace(t, m, cmd, now0) ==
    LET cols == IF cmd.Cols = 0 THEN 1 ELSE cmd.Cols
        rows == IF cmd.Rows = 0 THEN 1 ELSE cmd.Rows
        p    == [KittyPlacement(t.cursor) EXCEPT !.Rows = rows, !.Cols = cols]
        t1   == assignImageToCells(t, p)
    IN [t |-> IF cmd.DoNotMoveCursor THEN t1 ELSE kittyMoveCursor(t1, cols),
        m |-> Place(Image(m, cmd.ImageID, now0), cmd.ImageID).m]

\* kittyDisplay with its replies sent whatever the quiet level.
kittyDisplayLoud(t, m, cmd, now0) ==
    IF cmd.ImageID \notin DOMAIN m.images
    THEN [t |-> t, m |-> m,
          resp |-> <<FormatKittyResponse(cmd.ImageID, "ENOENT", TRUE)>>]
    ELSE LET r == kittyDisplayPlace(t, m, cmd, now0)
         IN [t |-> r.t, m |-> r.m,
             resp |-> <<FormatKittyResponse(cmd.ImageID, "", FALSE)>>]

\* kittyDisplay at clock reading now0.
kittyDisplay(t, m, cmd, now0) ==
    IF cmd.ImageID \notin DOMAIN m.images
    THEN [t |-> t, m |-> m,
          resp |-> IF cmd.Quiet < 2
                   THEN <<FormatKittyResponse(cmd.ImageID, "ENOENT", TRUE)>>
                   ELSE <<>>]
    ELSE LET r == kittyDisplayPlace(t, m, cmd, now0)
         IN [t |-> r.t, m |-> r.m,
             resp |-> IF cmd.Quiet < 1
                      THEN <<FormatKittyResponse(cmd.ImageID, "", FALSE)>>
                      ELSE <<>>]

\* ImageManager.RemovePlacementsForImage(imageID).
RemovePlacementsForImage(m, imageID) ==
    [m EXCEPT !.placements =
        [p \in {q \in DOMAIN @ : @[q].ImageID # imageID} |-> @[p]]]

\* kittyDelete for the selectors that do not depend on a position.
kittyDelete(m, cmd) ==
    IF cmd.Delete \in {"a", "A"} THEN Clear(m)
    ELSE IF cmd.Delete = "i" THEN RemovePlacementsForImage(m, cmd.ImageID)
    ELSE IF cmd.Delete = "I"
         THEN DeleteImage(RemovePlacementsForImage(m, cmd.ImageID), cmd.ImageID)
    ELSE m

\* handleKittyGraphics for a command that parsed, at clock reading now0.
handleKittyGraphics(t, m, cmd, now0) ==
    LET none == [t |-> t, m |-> m, resp |-> <<>>, decoded |-> <<>>]
    IN CASE cmd.Action = "q" ->
                [none EXCEPT !.resp = IF cmd.Quiet < 2
                                      THEN <<FormatKittyResponse(cmd.ImageID, "", FALSE)>>
                                      ELSE <<>>]
         [] cmd.Action = "t" ->
                LET x == kittyTransmit(m, cmd, now0 + 1)
                IN [none EXCEPT !.m = x.m, !.resp = x.resp, !.decoded = x.decoded]
         [] cmd.Action = "T" ->
                LET x == kittyTransmit(m, cmd, now0 + 1)
                    d == kittyDisplay(t, x.m, x.cmd, now0 + 2)
                IN IF cmd.More
                   THEN [none EXCEPT !.m = x.m, !.resp = x.resp, !.decoded = x.decoded]
                   ELSE [t |-> d.t, m |-> d.m, resp |-> x.resp \o d.resp,
                         decoded |-> x.decoded]
         [] cmd.Action = "p" ->
                LET d == kittyDisplay(t, m, cmd, now0 + 2)
                IN [none EXCEPT !.t = d.t, !.m = d.m, !.resp = d.resp]
         [] cmd.Action = "d" -> [none EXCEPT !.m = kittyDelete(m, cmd)]
         [] OTHER -> none

\* applicationCommandReceivedInternal for an APC sequence that starts with G.
applicationCommandReceivedInternal(t, m, cmd, now0) ==
    handleKittyGraphics(t, m, cmd, now0)

\* sixelReceivedInternal for the image ParseSixel returned, or its error.
sixelReceivedInternal(t, m, img, now0) ==
    IF img.err \/ img.Width = 0 \/ img.Height = 0 THEN [t |-> t, m |-> m]
    ELSE LET s  == Store(m, img.Data, now0 + 1)
             p  == KittyPlacement(t.cursor)
             t1 == assignImageToCells(t, p)
             row == t1.cursor.Row + 1
         IN [t |-> [t1 EXCEPT !.cursor.Row = IF row >= t.rows THEN t.rows - 1 ELSE row],
             m |-> Place(s.m, s.ret).m]

\* The payload pieces a command may carry.
KittyPayloads == {<<>>, <<0, 0>>, <<0, 1>>, <<0, 0, 0, 1>>}

KittyControl(action, id, quiet) ==
    [Action |-> action, Format |-> KittyFormatRGBA, ImageID |-> id,
     Width |-> 1, Height |-> 1, More |-> FALSE, Cols |-> 0, Rows |-> 0,
     DoNotMoveCursor |-> FALSE, Delete |-> "", Quiet |-> quiet, Payload |-> <<>>]

\* The commands fed to the terminal: chunks with m=1, transmissions with
\* m=0 in each format, displays, deletions, queries and an animation frame.
KittyCommands ==
    LET ctl(as, qs) == {KittyControl(a, i, q) : a \in as, i \in 0..1, q \in qs}
    IN    {[c EXCEPT !.More = TRUE, !.Payload = p] :
              c \in {b \in ctl({"t", "T"}, 0..2) : b.ImageID = 0},
              p \in {<<0, 0>>, <<0, 1>>}}
     \cup {[c EXCEPT !.Payload = p] :
              c \in ctl({"t", "T"}, 0..2), p \in KittyPayloads}
     \cup {[c EXCEPT !.Format = f, !.Payload = <<0, 0, 0, 1>>] :
              c \in ctl({"t"}, {0}), f \in {KittyFormatRGB, KittyFormatPNG}}
     \cup ctl({"q", "p"}, 0..2)
     \cup {[c EXCEPT !.Cols = 2, !.DoNotMoveCursor = n] :
              c \in ctl({"p"}, {0}), n \in BOOLEAN}
     \cup {[c EXCEPT !.Delete = d] : c \in ctl({"d"}, {0, 2}), d \in {"a", "i", "I"}}
     \cup ctl({"f"}, {0})

\* The outcomes of ParseSixel.
SixelImages ==
    {[err |-> TRUE, Width |-> 0, Height |-> 0, Data |-> <<>>],
     [err |-> FALSE, Width |-> 1, Height |-> 1, Data |-> <<0, 0, 0, 1>>]}

\* The history before any command: no chunk of a transfer has arrived.
NoCommand ==
    [op |-> "New", cmd |-> KittyControl("", 0, 0), ret |-> <<>>, decoded |-> <<>>,
     pre |-> <<>>, chunks |-> <<>>, arrived |-> <<>>]

InitKitty ==
    /\ term \in {WithKitty(WithSixel(NewTerminal(2, 2, FALSE), s), k) :
                    s \in BOOLEAN, k \in BOOLEAN}
    /\ images = NewImageManager
    /\ now = 0
    /\ thr = [i \in Threads |-> IdleThread]
    /\ env = NewEnv("recording")
    /\ last = NoCommand
    /\ steps = 0

\* One call: last keeps the command, its responses and the state it found;
\* chunks is the payload of the chunks of the transfer still open, arrived
\* the same with the payload of this command added.
KittyStep(op, cmd, t2, m2, resp, decoded) ==
    LET transmit == op = "ApplicationCommandReceived" /\ cmd.Action \in {"t", "T"}
    IN /\ ~term.fault
       /\ steps < MaxKittyOps
       /\ term' = t2
       /\ images' = m2
       /\ now' = now + 2
       /\ env' = [env EXCEPT !.out = @ + Len(resp)]
       /\ last' = [op |-> op, cmd |-> cmd, ret |-> resp, decoded |-> decoded,
                   pre |-> [term |-> term, images |-> images],
                   chunks |-> IF ~transmit THEN last.chunks
                              ELSE IF cmd.More THEN last.chunks \o cmd.Payload
                              ELSE <<>>,
                   arrived |-> IF transmit THEN last.chunks \o cmd.Payload
                               ELSE last.chunks]
       /\ steps' = steps + 1
       /\ UNCHANGED thr

ApplicationCommandReceived ==
    \E cmd \in KittyCommands :
        LET r == applicationCommandReceivedInternal(term, images, cmd, now)
        IN KittyStep("ApplicationCommandReceived", cmd, r.t, r.m, r.resp, r.decoded)

SixelReceived ==
    \E img \in SixelImages :
        LET r == sixelReceivedInternal(term, images, img, now)
        IN KittyStep("SixelReceived", NoCommand.cmd, r.t, r.m, <<>>, <<>>)

ClearImages ==
    KittyStep("ClearImages", NoCommand.cmd, term, Clear(images), <<>>, <<>>)

NextKitty ==
    \/ ApplicationCommandReceived
    \/ SixelReceived
    \/ ClearImages
    \/ KittyStep("ResetState", NoCommand.cmd, resetStateInternal(term), images, <<>>, <<>>)

SpecKitty == InitKitty /\ [][NextKitty]_vars

\* A transmit command.
IsTransmit ==
    last.op = "ApplicationCommandReceived" /\ last.cmd.Action \in {"t", "T"}

\* C23: in a chunked Kitty transfer no image is stored while the most recent
\* chunk carried m=1; the chunk with m=0 or no m decodes exactly the
\* concatenation of all chunk payloads in arrival order, and leaves the
\* accumulator empty with no further chunk expected; this also when a
\* delete-all or a Clear came between the chunks.
C23_ChunksConcatenated ==
    IsTransmit =>
        IF last.cmd.More
        THEN images.images = last.pre.images.images
        ELSE /\ last.decoded = <<last.arrived>>
             /\ images.accumulator = <<>>
             /\ ~images.accumulatorMore

\* The message of a response: OK or the error name.
Message(response) == response[Len(response) - 1]

\* The last command was a Kitty command with quiet level q.
KittyWithQuiet(q) ==
    last.op = "ApplicationCommandReceived" /\ last.cmd.Quiet = q

\* The last command completed a transmission, and its payload decoded.
TransmitDone == IsTransmit /\ ~last.cmd.More

TransmitSucceeded ==
    /\ TransmitDone
    /\ ~DecodeImageData([last.cmd EXCEPT !.Payload = last.decoded[1]]).err

\* The last command asked for a display, and a placement was made.
DisplayDone ==
    /\ last.op = "ApplicationCommandReceived"
    /\ last.cmd.Action = "p" \/ (last.cmd.Action = "T" /\ ~last.cmd.More)

DisplaySucceeded ==
    DisplayDone /\ images.nextPlacementID > last.pre.images.nextPlacementID

\* What a command answers with q=2 and with q=0.
QuietTwoSilent == KittyWithQuiet(2) => last.ret = <<>>

QuietZeroAnswers ==
    KittyWithQuiet(0) =>
        /\ TransmitDone =>
              /\ last.ret # <<>>
              /\ Message(last.ret[1]) = IF TransmitSucceeded THEN "OK" ELSE "ENODATA"
        /\ DisplayDone =>
              /\ last.ret # <<>>
              /\ Message(last.ret[Len(last.ret)]) =
                    IF DisplaySucceeded THEN "OK" ELSE "ENOENT"

Ignored ==
    /\ images.images = last.pre.images.images
    /\ images.placements = last.pre.images.placements
    /\ term.primaryBuffer.cells = last.pre.term.primaryBuffer.cells
    /\ term.alternateBuffer.cells = last.pre.term.alternateBuffer.cells
    /\ term.cursor = last.pre.term.cursor
    /\ last.ret = <<>>

\* C25: a graphics protocol disabled by WithSixel(false) or WithKitty(false)
\* has its sequences ignored: no image stored, no placement made, no cell
\* changed, no cursor move and no response.
C25_DisabledProtocolIgnored ==
    /\ (last.op = "SixelReceived" /\ ~last.pre.term.sixelEnabled) => Ignored
    /\ (last.op = "ApplicationCommandReceived" /\ ~last.pre.term.kittyEnabled) => Ignored

\* C26: after ResetState (RIS) the image store holds zero images and zero
\* placements.
C26_ResetClearsImages ==
    last.op = "ResetState" =>
        images.images = <<>> /\ images.placements = <<>>

\* C27: with auto-resize enabled nothing goes to scrollback, whether by line
\* feeds, wraps, an explicit ScrollUp, DeleteLines or Resize; the buffer grows
\* instead, and every line written stays in the buffer.
C27_AutoResizeNoScrollback ==
    (/\ last.op \in {"LineFeed", "Input", "ScrollUp", "DeleteLines", "Resize"}
     /\ last.pre.autoResize
     /\ ~term.fault) =>
        /\ term.primaryBuffer.scrollback = last.pre.primaryBuffer.scrollback
        /\ last.op = "LineFeed" =>
              /\ Len(ActiveBuf(term).cells) >= Len(ActiveBuf(last.pre).cells)
              /\ \A i \in 1..Len(ActiveBuf(last.pre).cells) :
                    SameText(ActiveBuf(term).cells[i], ActiveBuf(last.pre).cells[i])

----------------------------------------------------------------------------
(* The prompt-mark specification: one caller writes text, moves the cursor *)
(* and records shell integration marks (OSC 133) on a Terminal with or     *)
(* without scrollback.  A mark is [Type, Row, ExitCode] with Row the       *)
(* absolute row, cursor row plus scrollback length, at the time it came.   *)

MaxMarkOps == 5

\* ansicode.ShellIntegrationMark: the four mark types of OSC 133.  A filter
\* of -1 matches any type.
ShellIntegrationMarks ==
    [PromptStart |-> 0, CommandStart |-> 1, CommandExecuted |-> 2,
     CommandFinished |-> 3]

MarkTypes == {ShellIntegrationMarks[n] : n \in DOMAIN ShellIntegrationMarks}

\* Buffer.ScrollbackLen().
ScrollbackLen(b) == Len(b.scrollback.lines)

\* shellIntegrationMarkInternal(mark, exitCode).
shellIntegrationMarkInternal(t, mark, exitCode) ==
    [t EXCEPT !.promptMarks = Append(@,
        [Type     |-> mark,
         Row      |-> t.cursor.Row + ScrollbackLen(t.primaryBuffer),
         ExitCode |-> exitCode])]

ClearPromptMarks(t) == [t EXCEPT !.promptMarks = <<>>]

\* The marks NextPromptRow / PrevPromptRow accept.
MarksAfter(t, currentAbsRow, markType) ==
    {i \in 1..Len(t.promptMarks) :
        /\ t.promptMarks[i].Row > currentAbsRow
        /\ markType = -1 \/ t.promptMarks[i].Type = markType}

MarksBefore(t, currentAbsRow, markType) ==
    {i \in 1..Len(t.promptMarks) :
        /\ t.promptMarks[i].Row < currentAbsRow
        /\ markType = -1 \/ t.promptMarks[i].Type = markType}

\* NextPromptRow: the loop runs forwards and returns at its first match.
NextPromptRow(t, currentAbsRow, markType) ==
    LET hit == MarksAfter(t, currentAbsRow, markType)
    IN IF hit = {} THEN -1
       ELSE t.promptMarks[CHOOSE i \in hit : \A j \in hit : i <= j].Row

\* PrevPromptRow: the loop runs backwards and returns at its first match.
PrevPromptRow(t, currentAbsRow, markType) ==
    LET hit == MarksBefore(t, currentAbsRow, markType)
    IN IF hit = {} THEN -1
       ELSE t.promptMarks[CHOOSE i \in hit : \A j \in hit : i >= j].Row

\* cellsToString(cells) of a scrollback line.
cellsToString(cells) ==
    LET solid == {j \in 1..Len(cells) : cells[j].ch # " " /\ ~cells[j].spacer}
        lastNonSpace == IF solid = {} THEN 0
                        ELSE CHOOSE j \in solid : \A k \in solid : k <= j
        kept == SelectSeq(SubSeq(cells, 1, lastNonSpace), LAMBDA c : ~c.spacer)
    IN [j \in 1..Len(kept) |-> kept[j].ch]

\* The line extractTextBetweenRows reads for an absolute row.
AbsLine(t, absRow) ==
    LET scrollbackLen == ScrollbackLen(t.primaryBuffer)
    IN IF absRow < scrollbackLen
       THEN IF absRow < 0 THEN <<>>
            ELSE cellsToString(t.primaryBuffer.scrollback.lines[absRow + 1])
       ELSE IF absRow - scrollbackLen < t.rows
            THEN LineContent(ActiveBuf(t), absRow - scrollbackLen)
            ELSE <<>>

RECURSIVE JoinAbs(_, _, _, _)
\* The lines of the absolute rows row..upto joined by newlines.
JoinAbs(t, first, row, upto) ==
    IF row > upto THEN <<>>
    ELSE (IF row > first THEN <<"\n">> ELSE <<>>) \o AbsLine(t, row)
            \o JoinAbs(t, first, row + 1, upto)

\* extractTextBetweenRows(startRow, endRow): the lines up to the last
\* non-empty one.
extractTextBetweenRows(t, startRow, endRow) ==
    LET nonEmpty == {r \in startRow..(endRow - 1) : AbsLine(t, r) # <<>>}
    IN IF nonEmpty = {} THEN <<>>
       ELSE JoinAbs(t, startRow, startRow,
                    CHOOSE r \in nonEmpty : \A q \in nonEmpty : q <= r)

RECURSIVE FindPair(_, _, _, _)
\* GetLastCommandOutput's backwards loop from index i with the marks found
\* so far (0 for none): a pair whose CommandExecuted row is not below the
\* CommandFinished row is dropped and the search goes on.
FindPair(marks, i, lastExecuted, lastFinished) ==
    IF i = 0 THEN [lastExecuted |-> lastExecuted, lastFinished |-> lastFinished]
    ELSE LET f == IF /\ lastFinished = 0
                     /\ marks[i].Type = ShellIntegrationMarks.CommandFinished
                  THEN i ELSE lastFinished
             e == IF /\ lastExecuted = 0
                     /\ marks[i].Type = ShellIntegrationMarks.CommandExecuted
                  THEN i ELSE lastExecuted
         IN IF e # 0 /\ f # 0
            THEN IF marks[e].Row < marks[f].Row
                 THEN [lastExecuted |-> e, lastFinished |-> f]
                 ELSE FindPair(marks, i - 1, 0, 0)
            ELSE FindPair(marks, i - 1, e, f)

GetLastCommandOutput(t) ==
    LET p == FindPair(t.promptMarks, Len(t.promptMarks), 0, 0)
    IN IF p.lastExecuted = 0 \/ p.lastFinished = 0 THEN <<>>
       ELSE extractTextBetweenRows(t, t.promptMarks[p.lastExecuted].Row,
                                   t.promptMarks[p.lastFinished].Row)

InitMarks ==
    /\ term \in {NewTerminalWithScrollback(2, 2, FALSE, s) :
                    s \in {NoopScrollback, NewMemoryScrollback(MaxScrollback)}}
    /\ images = NewImageManager
    /\ now = 0
    /\ thr = [i \in Threads |-> IdleThread]
    /\ env = NewEnv("nil")
    /\ last = NoOp
    /\ steps = 0

MarkStep(t2) ==
    /\ ~term.fault
    /\ steps < MaxMarkOps
    /\ term' = t2
    /\ steps' = steps + 1
    /\ UNCHANGED <<images, now, thr, env, last>>

ShellIntegrationMark ==
    \E mark \in MarkTypes : MarkStep(shellIntegrationMarkInternal(term, mark, 0))

NextMarks ==
    \/ ShellIntegrationMark
    \/ MarkStep(ClearPromptMarks(term))
    \/ MarkStep(inputInternal(term, "a"))
    \/ MarkStep(lineFeedInternal(term))
    \/ MarkStep(carriageReturnInternal(term))
    \/ \E n \in 1..MaxArg : MarkStep(moveUpInternal(term, n))

SpecMarks == InitMarks /\ [][NextMarks]_vars

\* The absolute rows a query may name.
AbsRows == -1..(2 + MaxScrollback)

\* The rows of the marks that lie after / before r and pass the filter.
RowsAfter(t, r, markType) ==
    {t.promptMarks[i].Row : i \in MarksAfter(t, r, markType)}

RowsBefore(t, r, markType) ==
    {t.promptMarks[i].Row : i \in MarksBefore(t, r, markType)}

\* C28: NextPromptRow(r, filter) returns the smallest matching row above r
\* and PrevPromptRow(r, filter) the largest matching row below r, whatever
\* the order of the marks in the list, among the marks of the filter's type
\* only, and -1 when there is none.
C28_NearestPromptRow ==
    \A r \in AbsRows, markType \in MarkTypes \cup {-1} :
        LET after  == RowsAfter(term, r, markType)
            before == RowsBefore(term, r, markType)
        IN /\ NextPromptRow(term, r, markType) =
                 IF after = {} THEN -1
                 ELSE CHOOSE x \in after : \A y \in after : x <= y
           /\ PrevPromptRow(term, r, markType) =
                 IF before = {} THEN -1
                 ELSE CHOOSE x \in before : \A y \in before : x >= y

\* The index of the latest mark of a type, among those with a row below
\* limit; 0 when there is none.
LatestMark(t, markType, limit) ==
    LET hit == {i \in 1..Len(t.promptMarks) :
                    t.promptMarks[i].Type = markType /\ t.promptMarks[i].Row < limit}
    IN IF hit = {} THEN 0 ELSE CHOOSE i \in hit : \A j \in hit : i >= j

\* C29: GetLastCommandOutput pairs the latest CommandFinished mark with the
\* latest CommandExecuted mark at a strictly smaller absolute row and returns
\* the text of the rows from the executed row up to, not including, the
\* finished row; it returns the empty string only if there is no such pair.
C29_LastCommandOutput ==
    LET marks == term.promptMarks
        f == LatestMark(term, ShellIntegrationMarks.CommandFinished,
                        2 + MaxScrollback + 1)
        e == IF f = 0 THEN 0
             ELSE LatestMark(term, ShellIntegrationMarks.CommandExecuted, marks[f].Row)
    IN GetLastCommandOutput(term) =
          IF e = 0 THEN <<>>
          ELSE extractTextBetweenRows(term, marks[e].Row, marks[f].Row)

----------------------------------------------------------------------------
(* The alternate-screen specification: one caller sets and unsets mode     *)
(* 1049 and, in between, moves the cursor, writes, and saves and restores  *)
(* the cursor.  last.saved holds the cursor as it was when mode 1049 was   *)
(* last set, until the mode is unset; last.due is last.saved as the call   *)
(* found it.                                                               *)

MaxAltOps == 4

InitAlt ==
    /\ term \in {NewTerminal(2, 2, a) : a \in BOOLEAN}
    /\ images = NewImageManager
    /\ now = 0
    /\ thr = [i \in Threads |-> IdleThread]
    /\ env = NewEnv("nil")
    /\ last = [op |-> "New", pre |-> <<>>, saved |-> <<>>, due |-> <<>>]
    /\ steps = 0

AltStep(op, t2) ==
    /\ ~term.fault
    /\ steps < MaxAltOps
    /\ WithinBounds(t2)
    /\ term' = t2
    /\ last' = [op |-> op, pre |-> term,
                saved |-> IF op = "SetMode1049" THEN <<term.cursor>>
                          ELSE IF op = "UnsetMode1049" THEN <<>>
                          ELSE last.saved,
                due |-> last.saved]
    /\ steps' = steps + 1
    /\ UNCHANGED <<images, now, thr, env>>

NextAlt ==
    \/ AltStep("SetMode1049", setModeInternal(term, "SwapScreenAndSetRestoreCursor"))
    \/ AltStep("UnsetMode1049", unsetModeInternal(term, "SwapScreenAndSetRestoreCursor"))
    \/ AltStep("SaveCursorPosition", saveCursorPositionInternal(term))
    \/ AltStep("RestoreCursorPosition", restoreCursorPositionInternal(term))
    \/ \E r \in 0..1, c \in 0..1 : AltStep("Goto", gotoInternal(term, r, c))
    \/ AltStep("Input", inputInternal(term, "a"))
    \/ AltStep("LineFeed", lineFeedInternal(term))

SpecAlt == InitAlt /\ [][NextAlt]_vars

\* C30: mode 1049 saves the cursor when it is set and restores it when it is
\* unset: after a set and a later unset the cursor is where it was at the
\* set, whatever happened in between, SaveCursorPosition,
\* RestoreCursorPosition and cursor movement included.
C30_AltScreenRestoresCursor ==
    (last.op = "UnsetMode1049" /\ last.due # <<>>) => term.cursor = last.due[1]

----------------------------------------------------------------------------
(* The middleware specification: a Terminal built with WithMiddleware.  A  *)
(* middleware function either calls next once with the arguments it got    *)
(* ("next") or returns without calling it ("skip"); a nil field is "nil".  *)
(* Every exported handler of handler.go has the same wrapper: with a       *)
(* middleware function installed it calls that function with the internal  *)
(* handler as next and returns, otherwise it calls the internal handler.   *)

MaxMwOps == 3

\* The handlers driven here: they write cells, move the cursor, switch
\* buffers, push to scrollback, change the image store and send responses.
MwHandlers ==
    {"Input", "LineFeed", "ScrollUp", "SetMode", "ResetState",
     "ApplicationCommandReceived", "SixelReceived"}

\* &Middleware{} with the functions of installed set to behaviour.
NewMiddleware(installed, behaviour) ==
    [h \in MwHandlers |-> IF h \in installed THEN behaviour ELSE "nil"]

\* Middleware.Merge(other): the non-nil fields of other replace those of m.
Merge(m, other) ==
    [h \in MwHandlers |-> IF other[h] # "nil" THEN other[h] ELSE m[h]]

\* The state a handler works on: terminal, image store, responses written.
MwState == [t |-> term, m |-> images, out |-> env.out]

\* A wrapper that lacks the return after the middleware call.
FallThrough(mw, h, s, internal) == internal

\* The wrapper of handler h: s is the state before, internal the state the
\* internal handler would leave.
ThroughMiddleware(mw, h, s, internal) ==
    IF mw.set /\ mw.fns[h] # "nil"
    THEN IF mw.fns[h] = "next" THEN internal ELSE s
    ELSE internal

\* The middlewares a Terminal is built with: none, or one WithMiddleware
\* whose functions, on one handler or on all, all call next or all skip it.
Middlewares ==
    {[set |-> FALSE, fns |-> NewMiddleware({}, "nil")]}
    \cup {[set |-> TRUE, fns |-> Merge(NewMiddleware({}, "nil"), NewMiddleware(i, b))] :
            i \in {{h} : h \in MwHandlers} \cup {MwHandlers, {}},
            b \in {"next", "skip"}}

\* The Kitty commands of this specification.
MwKittyCommands ==
    {c \in KittyCommands :
        /\ c.Quiet = 0 /\ c.ImageID = 1 /\ ~c.More /\ c.Cols = 0
        /\ c.Format = KittyFormatRGBA
        /\ c.Payload \in {<<>>, <<0, 0, 0, 1>>}
        /\ c.Action \in {"T", "q", "p"}}

InitMw ==
    /\ term \in {NewTerminalWithScrollback(2, 2, FALSE, NewMemoryScrollback(MaxScrollback))}
    /\ images = NewImageManager
    /\ now = 0
    /\ thr = [i \in Threads |-> IdleThread]
    /\ env \in {[NewEnv("recording") EXCEPT !.middleware = mw] : mw \in Middlewares}
    /\ last = [op |-> "New", pre |-> MwState]
    /\ steps = 0

\* One handler call through its wrapper.
MwStep(h, internal) ==
    LET s2 == ThroughMiddleware(env.middleware, h, MwState, internal)
    IN /\ ~term.fault
       /\ steps < MaxMwOps
       /\ term' = s2.t
       /\ images' = s2.m
       /\ env' = [env EXCEPT !.out = s2.out]
       /\ now' = now + 2
       /\ last' = [op |-> h, pre |-> MwState]
       /\ steps' = steps + 1
       /\ UNCHANGED thr

\* An internal handler that touches the terminal only.
OnTerminal(t2) == [MwState EXCEPT !.t = t2]

NextMw ==
    \/ MwStep("Input", OnTerminal(inputInternal(term, "a")))
    \/ MwStep("LineFeed", OnTerminal(lineFeedInternal(term)))
    \/ MwStep("ScrollUp", OnTerminal(scrollUpInternal(term, 1)))
    \/ MwStep("SetMode",
              OnTerminal(setModeInternal(term, "SwapScreenAndSetRestoreCursor")))
    \/ MwStep("ResetState", OnTerminal(resetStateInternal(term)))
    \/ \E cmd \in MwKittyCommands :
          LET r == applicationCommandReceivedInternal(term, images, cmd, now)
          IN MwStep("ApplicationCommandReceived",
                    [t |-> r.t, m |-> r.m, out |-> env.out + Len(r.resp)])
    \/ \E img \in SixelImages :
          LET r == sixelReceivedInternal(term, images, img, now)
          IN MwStep("SixelReceived", [t |-> r.t, m |-> r.m, out |-> env.out])

SpecMw == InitMw /\ [][NextMw]_vars

\* The last call went to a middleware function that skipped next.
Skipped ==
    /\ last.op # "New"
    /\ env.middleware.set
    /\ env.middleware.fns[last.op] = "skip"

\* C31: a middleware that omits next blocks the action: for every handler
\* with a middleware installed, if the middleware returns without calling
\* next, the event changes no terminal state (buffers, cursor, modes, image
\* store, scrollback) and emits no response bytes.
C31_SkippedNextBlocks ==
    Skipped => MwState = last.pre

\* A transmit-and-display that a skipping middleware blocked on a terminal
\* where it would otherwise have stored an image and answered.
C31_Witness ==
    /\ Skipped
    /\ last.op = "ApplicationCommandReceived"
    /\ \E cmd \in MwKittyCommands :
          LET r == applicationCommandReceivedInternal(last.pre.t, last.pre.m, cmd, now)
          IN r.m.images # last.pre.m.images /\ r.resp # <<>> /\ r.t # last.pre.t

----------------------------------------------------------------------------
(* The line specification: rows leave the viewport through the top, and    *)
(* last.line follows the line the newest prompt mark was recorded on: its  *)
(* index in the scrollback lines followed by the viewport rows, <<>> when  *)
(* no mark was recorded or the line is gone.                               *)

MaxLineOps == 6

\* Whether the line feed of terminal t scrolls the screen (scrollIfNeeded:
\* the cursor would leave the scroll region through its bottom).
FeedScrolls(t) == t.cursor.Row + 1 >= t.scrollBottom

\* Whether the input of a narrow rune to terminal t scrolls the screen
\* (inputInternal: the cursor is past the last column, the line wraps and
\* the next row is past the last row).
InputScrolls(t) ==
    /\ t.cursor.Col + 1 > t.cols
    /\ "LineWrap" \in t.modes
    /\ t.cursor.Row + 1 >= t.rows
    /\ t.cursor.Row + 1 >= t.scrollBottom

\* Where the line at index p is after a step that took t to t2 and, when
\* scrolled, scrolled the whole screen up by one row.
LineAfterScroll(p, scrolled, t, t2) ==
    LET len  == ScrollbackLen(t.primaryBuffer)
        len2 == ScrollbackLen(t2.primaryBuffer)
    IN IF ~scrolled THEN <<p>>
       ELSE IF t.primaryBuffer.scrollback.lines # t2.primaryBuffer.scrollback.lines
                \/ len2 > len
            THEN \* row 0 was pushed and len + 1 - len2 old lines were trimmed
                 IF p - (len + 1 - len2) >= 0 THEN <<p - (len + 1 - len2)>> ELSE <<>>
            ELSE \* row 0 was dropped
                 IF p = len THEN <<>> ELSE IF p > len THEN <<p - 1>> ELSE <<p>>

\* Where the line at index p is after ClearScrollback.
LineAfterClear(p, t) ==
    LET len == ScrollbackLen(t.primaryBuffer)
    IN IF p >= len THEN <<p - len>> ELSE <<>>

InitLines ==
    /\ term \in {NewTerminalWithScrollback(2, 2, FALSE, s) :
                    s \in {NoopScrollback, NewMemoryScrollback(0),
                           NewMemoryScrollback(MaxScrollback)}}
    /\ images = NewImageManager
    /\ now = 0
    /\ thr = [i \in Threads |-> IdleThread]
    /\ env = NewEnv("nil")
    /\ last = [op |-> "New", pre |-> term, line |-> <<>>]
    /\ steps = 0

LineStep(op, t2, line) ==
    /\ ~term.fault
    /\ steps < MaxLineOps
    /\ term' = t2
    /\ last' = [op |-> op, pre |-> term, line |-> line]
    /\ steps' = steps + 1
    /\ UNCHANGED <<images, now, thr, env>>

NextLines ==
    \/ LineStep("ShellIntegrationMark",
                shellIntegrationMarkInternal(term, ShellIntegrationMarks.PromptStart, 0),
                <<term.cursor.Row + ScrollbackLen(term.primaryBuffer)>>)
    \/ LET t2 == lineFeedInternal(term)
       IN LineStep("LineFeed", t2,
                   IF last.line = <<>> THEN <<>>
                   ELSE LineAfterScroll(last.line[1], FeedScrolls(term), term, t2))
    \/ LET t2 == inputInternal(term, "a")
       IN LineStep("Input", t2,
                   IF last.line = <<>> THEN <<>>
                   ELSE LineAfterScroll(last.line[1], InputScrolls(term), term, t2))
    \/ LineStep("CarriageReturn", carriageReturnInternal(term), last.line)
    \/ LineStep("MoveUp", moveUpInternal(term, 1), last.line)
    \/ LineStep("ClearScrollback", ClearScrollback(term),
                IF last.line = <<>> THEN <<>>
                ELSE LineAfterClear(last.line[1], term))

SpecLines == InitLines /\ [][NextLines]_vars

\* The last step was a line feed that scrolled the whole screen of a terminal
\* whose storage is NewMemoryScrollback(0).
ScrolledUnlimited ==
    /\ last.op = "LineFeed"
    /\ FeedScrolls(last.pre)
    /\ last.pre.scrollTop = 0
    /\ last.pre.primaryBuffer.scrollback.kind = "memory"
    /\ last.pre.primaryBuffer.scrollback.maxLines = 0

\* C32: a MemoryScrollback created with maxLines = 0 is unlimited: every row
\* scrolled off the top of the primary buffer of a terminal using it is
\* retained in scrollback, and no stored line is ever dropped.
C32_UnlimitedScrollbackRetains ==
    ScrolledUnlimited =>
        term.primaryBuffer.scrollback.lines =
            Append(last.pre.primaryBuffer.scrollback.lines,
                   last.pre.primaryBuffer.cells[1])

\* The newest prompt mark.
NewestMark == term.promptMarks[Len(term.promptMarks)]

\* C37: each recorded prompt mark's absolute row keeps identifying the line
\* the cursor was on when the mark was recorded, for as long as that line is
\* still in scrollback or in the viewport, including after scrollback has
\* reached capacity and trimmed its oldest lines and after ClearScrollback.
C37_MarkRowFollowsLine ==
    (Len(term.promptMarks) > 0 /\ last.line # <<>>)
        => NewestMark.Row = last.line[1]

\* The same for a terminal whose scrollback is full and trims on each push.
MarkRowFollowsLineAfterTrim ==
    (/\ Len(term.promptMarks) > 0 /\ last.line # <<>>
     /\ last.op = "LineFeed"
     /\ last.pre.primaryBuffer.scrollback.maxLines = MaxScrollback
     /\ ScrollbackLen(last.pre.primaryBuffer) = MaxScrollback
     /\ last.pre.promptMarks = term.promptMarks)
        => NewestMark.Row = last.line[1]

\* The last command was a Kitty delete with d=a on a terminal that handles
\* the protocol.
DeletedAllPlacements ==
    /\ last.op = "ApplicationCommandReceived"
    /\ last.pre.term.kittyEnabled
    /\ last.cmd.Action = "d"
    /\ last.cmd.Delete = "a"

\* C33: a Kitty delete command with d=a removes all placements and leaves
\* every stored image's data in the store; stored image data is removed only
\* by the upper-case variant d=A.
C33_DeleteAllKeepsImageData ==
    DeletedAllPlacements =>
        /\ DOMAIN images.placements = {}
        /\ images.images = last.pre.images.images

----------------------------------------------------------------------------
(* The image-store locking specification: two threads call methods of one  *)
(* ImageManager.  A method is a sequence of regions as above, where the    *)
(* lock is the store's own m.mu.                                           *)

MaxStoreCalls == 2

\* The regions of each method.  GetImageData calls Image and then reads the
\* fields of the image it returned, after Image has released m.mu.
StoreRegionsOf(call) ==
    CASE call.f \in {"Image", "Placements", "ImageCount"} ->
            <<Region("R", call.f, call.arg)>>
      [] call.f = "GetImageData" ->
            <<Region("R", "Image", call.arg), Region("none", "readImage", call.arg)>>
      [] OTHER -> <<Region("W", call.f, call.arg)>>

StoreCalls ==
    {[f |-> f, arg |-> id] : f \in {"Image", "GetImageData", "DeleteImage", "Place"},
                             id \in 1..MaxImageID}
    \cup {[f |-> "Store", arg |-> 0], [f |-> "Clear", arg |-> 0],
          [f |-> "Placements", arg |-> 0], [f |-> "ImageCount", arg |-> 0]}

\* The fields of the store and of its images: <<name, image id>>, 0 for a
\* field of the ImageManager itself.
ImageFields(m, name) == {<<name, id>> : id \in DOMAIN m.images}

\* The fields the body of a region stores to.
StoreWrites(m, r) ==
    CASE r.act = "Image" ->
            IF r.arg \in DOMAIN m.images THEN {<<"AccessedAt", r.arg>>} ELSE {}
      [] r.act = "Store" ->
            {<<"images", 0>>, <<"hashToID", 0>>, <<"usedMemory", 0>>,
             <<"nextImageID", 0>>} \cup ImageFields(m, "AccessedAt")
      [] r.act \in {"DeleteImage", "Clear"} ->
            {<<"images", 0>>, <<"hashToID", 0>>, <<"usedMemory", 0>>,
             <<"placements", 0>>}
      [] r.act = "Place" -> {<<"placements", 0>>, <<"nextPlacementID", 0>>}
      [] OTHER -> {}

\* The fields the body of a region loads.
StoreReads(m, r) ==
    CASE r.act \in {"Image", "ImageCount"} -> {<<"images", 0>>}
      [] r.act = "Placements" -> {<<"placements", 0>>}
      [] r.act = "readImage" ->
            IF r.arg \in DOMAIN m.images THEN {<<"Data", r.arg>>} ELSE {}
      [] r.act = "Store" ->
            {<<"images", 0>>, <<"hashToID", 0>>, <<"usedMemory", 0>>,
             <<"nextImageID", 0>>, <<"maxMemory", 0>>, <<"placements", 0>>}
                \cup ImageFields(m, "AccessedAt") \cup ImageFields(m, "Data")
      [] r.act \in {"DeleteImage", "Clear"} ->
            {<<"images", 0>>, <<"placements", 0>>} \cup ImageFields(m, "Data")
      [] r.act = "Place" -> {<<"placements", 0>>, <<"nextPlacementID", 0>>}
      [] OTHER -> {}

InitStore ==
    /\ term = ConcTerminal
    /\ images = NewImageManager
    /\ now = 0
    /\ thr = [i \in Threads |-> IdleThread]
    /\ env = NewEnv("nil")
    /\ last = NoOp
    /\ steps = 0

\* A thread calls a method of the store.
CallStore(i) ==
    /\ thr[i].todo = <<>> /\ thr[i].calls < MaxStoreCalls
    /\ \E call \in StoreCalls :
          thr' = [thr EXCEPT ![i] = [@ EXCEPT
                    !.todo = StoreRegionsOf(call), !.entry = call.f,
                    !.calls = @ + 1]]
    /\ UNCHANGED <<term, env>> /\ ConcUnchanged

\* The body of the current region of a store method.
PerformStore(i) ==
    /\ Poised(i)
    /\ LET r == Head(thr[i].todo)
       IN /\ images' =
                CASE r.act = "Image" -> Image(images, r.arg, now + 1)
                  [] r.act = "Store" -> Store(images, <<0>>, now + 1).m
                  [] r.act = "DeleteImage" -> DeleteImage(images, r.arg)
                  [] r.act = "Clear" -> Clear(images)
                  [] r.act = "Place" ->
                        IF r.arg \in DOMAIN images.images
                        THEN Place(images, r.arg).m ELSE images
                  [] OTHER -> images
          /\ now' = now + 1
          /\ thr' = [thr EXCEPT ![i] = AfterBody(thr[i], FALSE)]
    /\ UNCHANGED <<term, env, last, steps>>

NextStore ==
    \E i \in Threads :
        \/ CallStore(i) \/ Acquire(i) \/ PerformStore(i) \/ Release(i)

SpecStore == InitStore /\ [][NextStore]_vars

\* Thread i is about to store to a field of the store or of an image.
AboutToWrite(i) ==
    Poised(i) /\ StoreWrites(images, Head(thr[i].todo)) # {}

\* Threads i and j are about to touch the same field, i storing to it.
Conflict(i, j) ==
    /\ i # j /\ Poised(i) /\ Poised(j)
    /\ StoreWrites(images, Head(thr[i].todo))
         \cap (StoreWrites(images, Head(thr[j].todo))
                \cup StoreReads(images, Head(thr[j].todo))) # {}

\* C34: image-store methods are self-consistent under concurrency: no
\* image-store field, including an image's accessed_at, is written by a
\* thread that holds only the store's read lock or no lock, so concurrent
\* Image lookups, stores and snapshot reads never access the same field
\* unsynchronized.
C34_StoreWritesUnderWriteLock ==
    /\ \A i \in Threads : AboutToWrite(i) => thr[i].held = "W"
    /\ \A i, j \in Threads : ~Conflict(i, j)

\* Stores to the maps of the store and to its counters, as opposed to the
\* fields of an image, are made under the write lock and conflict with
\* nothing.
MapWritesUnderWriteLock ==
    \A i \in Threads :
        (Poised(i) /\ \E f \in StoreWrites(images, Head(thr[i].todo)) : f[2] = 0)
            => /\ thr[i].held = "W"
               /\ \A j \in Threads : ~Conflict(i, j) /\ ~Conflict(j, i)

\* IsAlternateScreen(): the active buffer is the alternate buffer.
IsAlternateScreen(t) == t.activeBuffer = "alternate"

\* C35: after any sequence of operations, including ResetState while the
\* alternate screen is active and repeated set/unset of mode 1049, the
\* SwapScreenAndSetRestoreCursor mode bit is set if and only if the active
\* buffer is the alternate buffer.
C35_ModeBitMatchesActiveBuffer ==
    ~term.fault =>
        (("SwapScreenAndSetRestoreCursor" \in term.modes) <=> IsAlternateScreen(term))

\* The same as long as ResetState has not run on the alternate screen:
\* checked on the alternate-screen specification, which has no ResetState.
ModeBitMatchesWithoutReset ==
    ("SwapScreenAndSetRestoreCursor" \in term.modes) <=> IsAlternateScreen(term)

----------------------------------------------------------------------------
(* The cell-image specification.  Cell.Image, the reference that           *)
(* assignImageToCells stores in each covered cell and Cell.Reset sets to   *)
(* nil, is kept in last.cells as the set of [buf, Row, Col, PlacementID,   *)
(* ImageID] of the cells whose Image is not nil.  No operation of this     *)
(* specification moves a cell.                                             *)

MaxCellOps == 4

\* The Kitty commands of this specification: transmit, transmit-and-display,
\* display and delete of image 1, all with q=2.
CellCommands ==
    {c \in KittyCommands :
        /\ c.Quiet = 2 /\ c.ImageID = 1 /\ ~c.More
        /\ c.Format = KittyFormatRGBA
        /\ c.Action \in {"t", "T", "p", "d"}
        /\ c.Action \in {"t", "T"} => c.Payload = <<0, 0, 0, 1>>}

\* assignImageToCells(imageID, placementID, p, ...): every cell of the active
\* buffer that the placement covers gets a new CellImage.
assignCellImages(cells, t, imageID, placementID, p) ==
    {c \in cells : ~(c.buf = t.activeBuffer /\ <<c.Row, c.Col>> \in ImageCells(t, p))}
    \cup {[buf |-> t.activeBuffer, Row |-> c[1], Col |-> c[2],
           PlacementID |-> placementID, ImageID |-> imageID] : c \in ImageCells(t, p)}

\* Buffer.ClearAll() on the active buffer: Cell.Reset() sets Image to nil.
clearCellImages(cells, t) == {c \in cells : c.buf # t.activeBuffer}

\* The cell images after a Kitty command took the store from m to m2: a
\* display happened exactly when a placement was created.
CellsAfterCommand(cells, t, m, m2, cmd) ==
    IF m2.nextPlacementID # m.nextPlacementID
    THEN assignCellImages(cells, t, cmd.ImageID, m2.nextPlacementID,
            [KittyPlacement(t.cursor) EXCEPT
                !.Rows = IF cmd.Rows = 0 THEN 1 ELSE cmd.Rows,
                !.Cols = IF cmd.Cols = 0 THEN 1 ELSE cmd.Cols])
    ELSE cells

InitCells ==
    /\ term = WithKitty(NewTerminal(2, 2, FALSE), TRUE)
    /\ images = NewImageManager
    /\ now = 0
    /\ thr = [i \in Threads |-> IdleThread]
    /\ env = NewEnv("recording")
    /\ last = [op |-> "New", cmd |-> NoCommand.cmd, cells |-> {}]
    /\ steps = 0

CellStep(op, cmd, t2, m2, cells) ==
    /\ ~term.fault
    /\ steps < MaxCellOps
    /\ term' = t2
    /\ images' = m2
    /\ now' = now + 2
    /\ last' = [op |-> op, cmd |-> cmd, cells |-> cells]
    /\ steps' = steps + 1
    /\ UNCHANGED <<thr, env>>

NextCells ==
    \/ \E cmd \in CellCommands :
          LET r == applicationCommandReceivedInternal(term, images, cmd, now)
          IN CellStep("ApplicationCommandReceived", cmd, r.t, r.m,
                      CellsAfterCommand(last.cells, term, images, r.m, cmd))
    \/ CellStep("ClearImages", NoCommand.cmd, term, Clear(images), last.cells)
    \/ CellStep("SetMaxMemory", NoCommand.cmd, term, SetMaxMemory(images, 1), last.cells)
    \/ CellStep("ResetState", NoCommand.cmd, resetStateInternal(term), images,
                clearCellImages(last.cells, term))
    \/ LET t2 == setModeInternal(term, "SwapScreenAndSetRestoreCursor")
       IN CellStep("SetMode1049", NoCommand.cmd, t2, images,
                   clearCellImages(last.cells, t2))
    \/ CellStep("UnsetMode1049", NoCommand.cmd,
                unsetModeInternal(term, "SwapScreenAndSetRestoreCursor"),
                images, last.cells)

SpecCells == InitCells /\ [][NextCells]_vars

\* C36: after any sequence of image display, delete, prune, clear and
\* screen-switch operations, every cell that carries an image reference
\* names a placement id and an image id that still exist in the image store.
C36_NoDanglingCellImage ==
    \A c \in last.cells :
        /\ c.PlacementID \in DOMAIN images.placements
        /\ c.ImageID \in DOMAIN images.images


----------------------------------------------------------------------------
(* The chunked-transfer specification: a transfer whose first chunk        *)
(* carries the control keys and whose later chunks carry only m and the    *)
(* payload.  ParseKittyGraphics gives a key that is absent its default:    *)
(* a=T, f=32, and 0 for i, s and v.  last.open is the first chunk of the   *)
(* transfer in progress, last.first the first chunk of the transfer the    *)
(* last command completed, last.arrived the payloads of that transfer.     *)

MaxChunkOps == 4

\* "m=<more>;<payload>" as ParseKittyGraphics returns it.
BareChunk(more, payload) ==
    [KittyControl("T", 0, 0) EXCEPT
        !.Width = 0, !.Height = 0, !.More = more, !.Payload = payload]

ChunkCommands ==
    {[KittyControl("t", i, 0) EXCEPT !.Format = f, !.More = TRUE, !.Payload = <<0, 0>>] :
        i \in 1..MaxImageID, f \in {KittyFormatRGB, KittyFormatRGBA}}
    \cup {BareChunk(more, <<0, 1>>) : more \in BOOLEAN}
    \cup {[KittyControl("t", 1, 0) EXCEPT !.Payload = <<0, 0, 0, 1>>]}

InitChunks ==
    /\ term = WithKitty(NewTerminal(2, 2, FALSE), TRUE)
    /\ images = NewImageManager
    /\ now = 0
    /\ thr = [i \in Threads |-> IdleThread]
    /\ env = NewEnv("recording")
    /\ last = [op |-> "New", cmd |-> NoCommand.cmd, ret |-> <<>>, pre |-> images,
               open |-> <<>>, first |-> <<>>, chunks |-> <<>>, arrived |-> <<>>]
    /\ steps = 0

ChunkReceived ==
    \E cmd \in ChunkCommands :
        LET r == applicationCommandReceivedInternal(term, images, cmd, now)
        IN /\ ~term.fault
           /\ steps < MaxChunkOps
           /\ term' = r.t
           /\ images' = r.m
           /\ now' = now + 2
           /\ env' = [env EXCEPT !.out = @ + Len(r.resp)]
           /\ last' = [op |-> "ApplicationCommandReceived", cmd |-> cmd,
                       ret |-> r.resp, pre |-> images,
                       open |-> IF ~cmd.More THEN <<>>
                                ELSE IF last.open = <<>> THEN <<cmd>> ELSE last.open,
                       first |-> IF cmd.More THEN <<>> ELSE last.open,
                       chunks |-> IF cmd.More THEN last.chunks \o cmd.Payload ELSE <<>>,
                       arrived |-> IF cmd.More THEN <<>> ELSE last.chunks \o cmd.Payload]
           /\ steps' = steps + 1
           /\ UNCHANGED thr

NextChunks == ChunkReceived

SpecChunks == InitChunks /\ [][NextChunks]_vars

\* The first chunk of the transfer just completed, with the whole payload.
WholeCommand == [last.first[1] EXCEPT !.Payload = last.arrived]

\* The last command was the final chunk, bare, of a transfer whose first
\* chunk carried the image id, the format and the dimensions, and the
\* payloads together are an image of that format and those dimensions.
ChunkedTransferCompleted ==
    /\ last.op = "ApplicationCommandReceived"
    /\ last.first # <<>>
    /\ last.cmd = BareChunk(FALSE, last.cmd.Payload)
    /\ last.first[1].ImageID > 0
    /\ ~DecodeImageData(WholeCommand).err

\* C38: in a chunked Kitty transfer where only the first chunk carries the
\* image id, format and dimensions and the later chunks carry only m and
\* payload, the completed image is stored exactly once, under the image id
\* and with the format, width and height given in the first chunk.
C38_ChunkedStoredUnderFirstHeader ==
    ChunkedTransferCompleted =>
        /\ DOMAIN images.images = DOMAIN last.pre.images \cup {WholeCommand.ImageID}
        /\ images.images[WholeCommand.ImageID].Data = DecodeImageData(WholeCommand).data

\* When the final chunk repeats the control keys of the first one, the image
\* is stored under that id with the decoded data.
FinalWithHeaderStored ==
    (/\ last.op = "ApplicationCommandReceived"
     /\ ~last.cmd.More /\ last.cmd.ImageID > 0
     /\ ~DecodeImageData([last.cmd EXCEPT !.Payload = last.arrived]).err)
        => /\ last.cmd.ImageID \in DOMAIN images.images
           /\ images.images[last.cmd.ImageID].Data
                = DecodeImageData([last.cmd EXCEPT !.Payload = last.arrived]).data

\* C39: each Kitty graphics command causes at most one response to be written
\* to the response sink; in particular a transmit-and-display command (a=T)
\* with q=0 yields a single reply, not one for the transmit and another for
\* the display.
C39_AtMostOneResponse ==
    last.op = "ApplicationCommandReceived" => Len(last.ret) <= 1

\* Every command other than a completed transmit-and-display is answered at
\* most once.
OneResponseExceptTransmitDisplay ==
    (last.op = "ApplicationCommandReceived"
        /\ ~(last.cmd.Action = "T" /\ ~last.cmd.More))
        => Len(last.ret) <= 1

\* C40: after any sequence of handler calls and Resize calls, with or without
\* auto-resize and on either buffer, the scroll region satisfies
\* 0 <= scroll_top < scroll_bottom <= rows, where rows is the current row
\* count of the active buffer.
C40_ScrollRegionWithinRows ==
    ~term.fault =>
        /\ 0 <= term.scrollTop
        /\ term.scrollTop < term.scrollBottom
        /\ term.scrollBottom <= ActiveBuf(term).rows

\* The same against the Terminal's own row count, Rows().
ScrollRegionWithinTerminalRows ==
    ~term.fault =>
        /\ 0 <= term.scrollTop
        /\ term.scrollTop < term.scrollBottom
        /\ term.scrollBottom <= term.rows
====
